---- MODULE Spec2Model ----
(***************************************************************************)
(* A state-machine model of the runtime function interceptor in            *)
(* src/example/guminterceptor_commented.c: the address -> context map, the *)
(* transaction with its page-update batcher and deferred destroy queue,    *)
(* and the per-thread invocation engine (entry and leave handlers).        *)
(***************************************************************************)
EXTENDS Integers, Sequences, FiniteSets, TLC

\* ------------------------------------------------------------------------
\* Bounds of the model
\* ------------------------------------------------------------------------
MaxLevel == 1        \* deepest explicit begin_transaction nesting explored
MaxCtx == 2          \* function contexts allocated in one behaviour
MaxTasks == 2        \* longest destroy queue explored
MaxCallDepth == 2    \* native call nesting per thread (a call, a through-call)
MaxIgnore == 1       \* deepest ignore_current_thread nesting explored
MaxThroughCalls == 2 \* calls a replacement makes to the original per invocation

\* The number of entries the invocation stack of a thread is created for. The
\* header that defines it is not part of the sources; the model takes 2, the
\* code that uses it is the same for every value.
GUM_MAX_CALL_DEPTH == 2

\* The number of rows of listener_invocation_data in an invocation stack
\* entry. Its header is not part of the sources either; the model takes 2.
GUM_MAX_LISTENERS_PER_FUNCTION == 2

MaxRestores == 1   \* restores that land in one native frame
MaxNesting == GUM_MAX_CALL_DEPTH + 1  \* deepest nesting of intercepted calls explored

\* ------------------------------------------------------------------------
\* Values
\* ------------------------------------------------------------------------
NULL == 0

Threads == {1, 2}
Listeners == {1, 2}
HasOnEnter(l) == l \in {1, 2}
HasOnLeave(l) == l = 1
Replacements == {1, 2}
CtxIds == 1..MaxCtx

\* Addresses the callers pass in: two patchable functions (the second one's
\* prologue straddles a page boundary), a jump stub that redirects to the
\* first function, and a function the backend cannot patch.
Addresses == <<20, 46, 70, 90>>
AddrF == Addresses[1]
AddrG == Addresses[2]
AddrStub == Addresses[3]
AddrBad == Addresses[4]
FuncAddrs == {AddrF, AddrG}
AllAddrs == {AddrF, AddrG, AddrStub, AddrBad}

Hosts == {"signed", "rwx", "segment", "suspend"}

\* Values of the thread's system error (errno, GetLastError), and the mark of
\* a callback that leaves the invocation context's system_error alone.
SystemErrors == {0, 1, 2}
NoWrite == -1

\* A GumInvocationState that no gum_interceptor_save has written.
NoState == -1

\* The out parameter of replace: not written, or the on-invoke trampoline of
\* the context c.
Unwritten == [written |-> FALSE, on_invoke_trampoline |-> NULL]
Written(c) == [written |-> TRUE, on_invoke_trampoline |-> c]

VARIABLES
  alive,                \* the interceptor object exists (not yet finalized)
  aborted,              \* a g_assert failed
  function_by_address,  \* GumInterceptor.function_by_address
  ctx,                  \* the GumFunctionContext objects, by identity
  current_transaction,  \* GumInterceptor.current_transaction
  mutex,                \* GumInterceptor.mutex (recursive)
  selected_thread_id,   \* GumInterceptor.selected_thread_id
  thread_ctx,           \* InterceptorThreadContext of each thread
  guard,                \* the guard TLS value of each thread
  code,                 \* the prologue bytes of each function, per page
  prot,                 \* protection of each code page
  suspended,            \* threads suspended by the OS
  host,                 \* what the host allows for code pages
  commit,               \* each thread's position in transaction_end
  call,                 \* each thread's native call stack
  released,             \* contexts whose trampoline and memory were released
  last                  \* return value and out parameter of the last API call

vars == <<alive, aborted, function_by_address, ctx, current_transaction, mutex,
          selected_thread_id, thread_ctx, guard, code, prot, suspended, host,
          commit, call, released, last>>

\* ------------------------------------------------------------------------
\* Host and backend (external collaborators)
\* ------------------------------------------------------------------------
gum_query_page_size == 16
overwritten_prologue_len == 4

gum_process_get_code_signing_policy == IF host = "signed" THEN "required" ELSE "optional"
gum_query_is_rwx_supported == host = "rwx"
gum_code_segment_is_supported == host = "segment"

\* _gum_interceptor_backend_create_trampoline: fails on a prologue it cannot patch.
backend_create_trampoline(a) == a \in FuncAddrs
\* _gum_interceptor_backend_claim_grafted_trampoline: only grafted functions.
backend_claim_grafted_trampoline(a) == a \in FuncAddrs
\* _gum_interceptor_backend_resolve_redirect: the target of a jump stub, or NULL.
backend_resolve_redirect(a) == IF a = AddrStub THEN AddrF ELSE NULL
\* _gum_interceptor_backend_get_function_address
backend_get_function_address(c) == c.function_address

gum_page_address_from_pointer(ptr) == ptr - (ptr % gum_query_page_size)

StartPage(a) == gum_page_address_from_pointer(a)
EndPage(a) == gum_page_address_from_pointer(a + overwritten_prologue_len - 1)
PagesOf(a) == {StartPage(a), EndPage(a)}
Pages == UNION {PagesOf(a) : a \in FuncAddrs}

\* Widths, scaled down: pointers (gsize) are wider than gint, and two pages
\* of the model can be half the range of gint apart.
PointerBits == 7
IntBits == 6

\* The conversion of an unsigned value to gint: its low IntBits bits, read as
\* two's complement.
ToInt(n) ==
  LET low == n % (2 ^ IntBits)
  IN IF low >= 2 ^ (IntBits - 1) THEN low - 2 ^ IntBits ELSE low

\* Faulty variant: the sign of the comparison is reversed.
page_address_compare_reversed(a, b) == ToInt((b - a) % (2 ^ PointerBits))

\* gum_page_address_compare: the pointer-sized difference of the two
\* addresses, returned as gint.
gum_page_address_compare(a, b) == ToInt((a - b) % (2 ^ PointerBits))

\* g_hash_table_get_keys: the keys in an order the hash table chooses.
RECURSIVE KeyOrders(_)
KeyOrders(S) ==
  IF S = {} THEN {<<>>}
  ELSE UNION {{<<x>> \o rest : rest \in KeyOrders(S \ {x})} : x \in S}

\* The merge of g_list_sort: the head of the first list goes first unless the
\* comparison is positive.
RECURSIVE g_list_sort_merge(_, _)
g_list_sort_merge(l1, l2) ==
  IF l1 = <<>> THEN l2
  ELSE IF l2 = <<>> THEN l1
  ELSE IF gum_page_address_compare(Head(l1), Head(l2)) <= 0
  THEN <<Head(l1)>> \o g_list_sort_merge(Tail(l1), l2)
  ELSE <<Head(l2)>> \o g_list_sort_merge(l1, Tail(l2))

\* g_list_sort of the update map's keys with gum_page_address_compare: a
\* merge sort of the two halves of the list.
RECURSIVE SortPages(_)
SortPages(keys) ==
  IF Len(keys) <= 1 THEN keys
  ELSE LET half == Len(keys) \div 2
       IN g_list_sort_merge(SortPages(SubSeq(keys, 1, half)),
                            SortPages(SubSeq(keys, half + 1, Len(keys))))

\* ------------------------------------------------------------------------
\* Function contexts and listener lists
\* ------------------------------------------------------------------------
\* list_id names the array listener_entries points to, so that a thread that
\* loaded the pointer can tell its array from one installed later.
NoCtx == [state |-> "unused", function_address |-> NULL, type |-> "default",
          listener_entries |-> <<>>, list_id |-> 1,
          replacement_function |-> NULL,
          replacement_data |-> NULL, has_on_leave_listener |-> FALSE,
          activated |-> FALSE, destroyed |-> FALSE,
          trampoline_usage_counter |-> 0]

\* gum_function_context_new
gum_function_context_new(a, type) ==
  [NoCtx EXCEPT !.state = "live", !.function_address = a, !.type = type]

ListenerEntry(l, d) == [listener_instance |-> l, function_data |-> d]
\* A slot of the list that holds no entry (a NULL pointer).
NullEntry == [listener_instance |-> NULL, function_data |-> NULL]

\* Faulty variant: the search stops one slot short of the end of the list.
find_listener_stops_short(c, l) ==
  {i \in 1..(Len(c.listener_entries) - 1) :
     /\ c.listener_entries[i] # NullEntry
     /\ c.listener_entries[i].listener_instance = l}

\* gum_function_context_find_listener: some slot holds a live entry of l.
gum_function_context_find_listener(c, l) ==
  {i \in 1..Len(c.listener_entries) :
     /\ c.listener_entries[i] # NullEntry
     /\ c.listener_entries[i].listener_instance = l}

gum_function_context_has_listener(c, l) ==
  gum_function_context_find_listener(c, l) # {}

gum_function_context_find_taken_listener_slot(c) ==
  {i \in 1..Len(c.listener_entries) : c.listener_entries[i] # NullEntry}

gum_function_context_is_empty(c) ==
  IF c.replacement_function # NULL THEN FALSE
  ELSE gum_function_context_find_taken_listener_slot(c) = {}

LiveEntries(entries) == SelectSeq(entries, LAMBDA e : e # NullEntry)

\* ------------------------------------------------------------------------
\* Transactions
\* ------------------------------------------------------------------------
\* gum_interceptor_transaction_init
EmptyTransaction ==
  [is_dirty |-> FALSE, level |-> 0, pending_destroy_tasks |-> <<>>,
   pending_update_tasks |-> <<>>]

PendingAt(tx, page) ==
  IF page \in DOMAIN tx.pending_update_tasks
  THEN tx.pending_update_tasks[page] ELSE <<>>

\* Faulty variant: the task is filed under the end page as well.
schedule_update_both_pages(tx, id, c, func) ==
  LET fa == backend_get_function_address(c)
      start_page == gum_page_address_from_pointer(fa)
      end_page == gum_page_address_from_pointer(fa + overwritten_prologue_len - 1)
      update == [ctx |-> id, func |-> func]
      m1 == (start_page :> Append(PendingAt(tx, start_page), update))
              @@ tx.pending_update_tasks
      m2 == IF end_page # start_page
            THEN (end_page :> Append(IF end_page \in DOMAIN m1 THEN m1[end_page]
                                     ELSE <<>>, update)) @@ m1
            ELSE m1
  IN [tx EXCEPT !.pending_update_tasks = m2]

\* Faulty variant: the end page of the prologue gets no entry.
schedule_update_start_page_only(tx, id, c, func) ==
  LET fa == backend_get_function_address(c)
      start_page == gum_page_address_from_pointer(fa)
      update == [ctx |-> id, func |-> func]
  IN [tx EXCEPT !.pending_update_tasks =
        (start_page :> Append(PendingAt(tx, start_page), update))
          @@ tx.pending_update_tasks]

\* Faulty variant: the task is put in front of the page's pending tasks.
schedule_update_prepends(tx, id, c, func) ==
  LET fa == backend_get_function_address(c)
      start_page == gum_page_address_from_pointer(fa)
      end_page == gum_page_address_from_pointer(fa + overwritten_prologue_len - 1)
      update == [ctx |-> id, func |-> func]
      m1 == (start_page :> (<<update>> \o PendingAt(tx, start_page)))
              @@ tx.pending_update_tasks
      m2 == IF end_page # start_page /\ end_page \notin DOMAIN m1
            THEN (end_page :> <<>>) @@ m1 ELSE m1
  IN [tx EXCEPT !.pending_update_tasks = m2]

\* gum_interceptor_transaction_schedule_update: the task is filed under the
\* start page of the prologue; the end page only gets an (empty) entry.
gum_interceptor_transaction_schedule_update(tx, id, c, func) ==
  LET fa == backend_get_function_address(c)
      start_page == gum_page_address_from_pointer(fa)
      end_page == gum_page_address_from_pointer(fa + overwritten_prologue_len - 1)
      update == [ctx |-> id, func |-> func]
      m1 == (start_page :> Append(PendingAt(tx, start_page), update))
              @@ tx.pending_update_tasks
      m2 == IF end_page # start_page /\ end_page \notin DOMAIN m1
            THEN (end_page :> <<>>) @@ m1 ELSE m1
  IN [tx EXCEPT !.pending_update_tasks = m2]

\* gum_interceptor_transaction_schedule_destroy
gum_interceptor_transaction_schedule_destroy(tx, id, notify, data) ==
  [tx EXCEPT !.pending_destroy_tasks =
     Append(@, [ctx |-> id, notify |-> notify, data |-> data])]

\* ------------------------------------------------------------------------
\* Operations on the interceptor's data, as functions of the record
\* S = [fba, ctx, tx, aborted] (map, contexts, current transaction, abort flag)
\* ------------------------------------------------------------------------
gum_interceptor_has(fba, a) == fba[a] # NULL

\* gum_interceptor_resolve: follow redirects of addresses not yet in the map,
\* unless code signing is required.
RECURSIVE gum_interceptor_resolve(_, _)
gum_interceptor_resolve(fba, address) ==
  IF ~ gum_interceptor_has(fba, address)
  THEN IF gum_process_get_code_signing_policy = "required"
       THEN address
       ELSE LET target == backend_resolve_redirect(address)
            IN IF target # NULL THEN gum_interceptor_resolve(fba, target)
               ELSE address
  ELSE address

FreshCtx(S) == CHOOSE id \in CtxIds :
                 /\ S.ctx[id].state = "unused"
                 /\ \A j \in CtxIds : S.ctx[j].state = "unused" => id <= j

\* Whether instrumenting address a needs a context the model can still allocate.
CanInstrument(S, a) ==
  \/ S.fba[a] # NULL
  \/ \E id \in CtxIds : S.ctx[id].state = "unused"

\* Faulty variant: an existing context is returned whatever its type.
instrument_ignores_type(S, type, a) ==
  LET id == S.fba[a] IN
  IF id # NULL
  THEN [S |-> S, c |-> id, error |-> "none"]
  ELSE IF gum_process_get_code_signing_policy = "required"
            /\ ~ backend_claim_grafted_trampoline(a)
       THEN [S |-> S, c |-> NULL, error |-> "policy_violation"]
       ELSE IF gum_process_get_code_signing_policy # "required"
                 /\ ~ backend_create_trampoline(a)
       THEN [S |-> S, c |-> NULL, error |-> "wrong_signature"]
       ELSE LET nid == FreshCtx(S)
                c == gum_function_context_new(a, type)
            IN [S |-> [S EXCEPT !.fba[a] = nid,
                                !.ctx[nid] = c,
                                !.tx = gum_interceptor_transaction_schedule_update(
                                          S.tx, nid, c, "activate")],
                c |-> nid, error |-> "none"]

\* Faulty variant: the new context is inserted and its activation scheduled
\* before the trampoline is created, and stays when that fails.
instrument_inserts_first(S, type, a) ==
  LET id == S.fba[a] IN
  IF id # NULL
  THEN IF S.ctx[id].type # type
       THEN [S |-> S, c |-> NULL, error |-> "wrong_type"]
       ELSE [S |-> S, c |-> id, error |-> "none"]
  ELSE LET nid == FreshCtx(S)
           c == gum_function_context_new(a, type)
           S1 == [S EXCEPT !.fba[a] = nid,
                           !.ctx[nid] = c,
                           !.tx = gum_interceptor_transaction_schedule_update(
                                     S.tx, nid, c, "activate")]
       IN IF gum_process_get_code_signing_policy = "required"
               /\ ~ backend_claim_grafted_trampoline(a)
          THEN [S |-> S1, c |-> NULL, error |-> "policy_violation"]
          ELSE IF gum_process_get_code_signing_policy # "required"
                    /\ ~ backend_create_trampoline(a)
          THEN [S |-> S1, c |-> NULL, error |-> "wrong_signature"]
          ELSE [S |-> S1, c |-> nid, error |-> "none"]

\* gum_interceptor_instrument: the context of the address (created, with its
\* activation scheduled, when the address is new), or NULL and an error.
gum_interceptor_instrument(S, type, a) ==
  LET id == S.fba[a] IN
  IF id # NULL
  THEN IF S.ctx[id].type # type
       THEN [S |-> S, c |-> NULL, error |-> "wrong_type"]
       ELSE [S |-> S, c |-> id, error |-> "none"]
  ELSE IF gum_process_get_code_signing_policy = "required"
            /\ ~ backend_claim_grafted_trampoline(a)
       THEN [S |-> S, c |-> NULL, error |-> "policy_violation"]
       ELSE IF gum_process_get_code_signing_policy # "required"
                 /\ ~ backend_create_trampoline(a)
       THEN [S |-> S, c |-> NULL, error |-> "wrong_signature"]
       ELSE LET nid == FreshCtx(S)
                c == gum_function_context_new(a, type)
            IN [S |-> [S EXCEPT !.fba[a] = nid,
                                !.ctx[nid] = c,
                                !.tx = gum_interceptor_transaction_schedule_update(
                                          S.tx, nid, c, "activate")],
                c |-> nid, error |-> "none"]

\* gum_function_context_add_listener: publish a new list (the live entries
\* of the old one plus the new entry) and schedule the old list's release.
\* The arrays of context id that some thread loaded in a handler and has not
\* finished iterating.
ListsBeingRead(id) ==
  UNION {{call[t][i].list_id :
            i \in {j \in DOMAIN call[t] :
                     /\ call[t][j].c = id
                     /\ call[t][j].pc \in {"on_enter", "on_leave"}}} :
         t \in Threads}

\* g_ptr_array_new_full: an array that is none of those still being read.
NewListId(id) ==
  CHOOSE n \in 1..(2 * MaxNesting + 1) :
    /\ n \notin ListsBeingRead(id)
    /\ \A m \in 1..(n - 1) : m \in ListsBeingRead(id)

gum_function_context_add_listener(S, id, l, d) ==
  LET old_entries == S.ctx[id].listener_entries
      new_entries == Append(LiveEntries(old_entries), ListenerEntry(l, d))
  IN [S EXCEPT
        !.ctx[id].listener_entries = new_entries,
        !.ctx[id].list_id = NewListId(id),
        !.ctx[id].has_on_leave_listener = IF HasOnLeave(l) THEN TRUE ELSE @,
        !.tx = gum_interceptor_transaction_schedule_destroy(
                  S.tx, id, "g_ptr_array_unref", [array |-> id])]

\* Faulty variant: the entry is looked up but its slot is not cleared.
remove_listener_keeps_slot(S, id, l) ==
  LET found == gum_function_context_find_listener(S.ctx[id], l)
      entries == S.ctx[id].listener_entries
  IN IF found = {} THEN [S EXCEPT !.aborted = TRUE]
     ELSE [S EXCEPT
             !.ctx[id].has_on_leave_listener =
                \E i \in 1..Len(entries) :
                   entries[i] # NullEntry /\ HasOnLeave(entries[i].listener_instance)]

\* gum_function_context_remove_listener: null the listener's slot in place
\* and recompute has_on_leave_listener from the remaining entries.
gum_function_context_remove_listener(S, id, l) ==
  LET found == gum_function_context_find_listener(S.ctx[id], l)
      slot == CHOOSE i \in found : \A j \in found : i <= j
      entries == [S.ctx[id].listener_entries EXCEPT ![slot] = NullEntry]
  IN IF found = {} THEN [S EXCEPT !.aborted = TRUE]
     ELSE [S EXCEPT
             !.ctx[id].listener_entries = entries,
             !.ctx[id].has_on_leave_listener =
                \E i \in 1..Len(entries) :
                   entries[i] # NullEntry /\ HasOnLeave(entries[i].listener_instance)]

\* Faulty variant: no deactivation is scheduled.
destroy_without_deactivation(S, id) ==
  IF S.ctx[id].destroyed THEN [S EXCEPT !.aborted = TRUE]
  ELSE [S EXCEPT
          !.ctx[id].destroyed = TRUE,
          !.tx = gum_interceptor_transaction_schedule_destroy(
                    S.tx, id, "perform_destroy", [function_ctx |-> id])]

\* gum_function_context_destroy (the map's value destructor): mark destroyed,
\* schedule deactivation when activated, then the finalizing destroy task.
gum_function_context_destroy(S, id) ==
  IF S.ctx[id].destroyed THEN [S EXCEPT !.aborted = TRUE]
  ELSE LET S1 == [S EXCEPT !.ctx[id].destroyed = TRUE]
           tx1 == IF S1.ctx[id].activated
                  THEN gum_interceptor_transaction_schedule_update(
                          S1.tx, id, S1.ctx[id], "deactivate")
                  ELSE S1.tx
       IN [S1 EXCEPT !.tx = gum_interceptor_transaction_schedule_destroy(
                                tx1, id, "perform_destroy", [function_ctx |-> id])]

\* g_hash_table_remove / g_hash_table_iter_remove on function_by_address
HashTableRemove(S, a) ==
  gum_function_context_destroy([S EXCEPT !.fba[a] = NULL], S.fba[a])

\* The loop of gum_interceptor_detach over the map, in iteration order `order`.
RECURSIVE DetachLoop(_, _, _)
DetachLoop(S, l, order) ==
  IF order = <<>> THEN S
  ELSE LET a == Head(order)
           id == S.fba[a]
       IN IF id # NULL /\ gum_function_context_has_listener(S.ctx[id], l)
          THEN LET S1 == gum_function_context_remove_listener(S, id, l)
                   S2 == [S1 EXCEPT !.tx =
                            gum_interceptor_transaction_schedule_destroy(
                               S1.tx, id, "g_object_unref", [listener |-> l])]
                   S3 == IF gum_function_context_is_empty(S2.ctx[id])
                         THEN HashTableRemove(S2, a) ELSE S2
               IN DetachLoop(S3, l, Tail(order))
          ELSE DetachLoop(S, l, Tail(order))

\* The body of gum_interceptor_attach between transaction begin and end.
AttachBody(S, address, l, d) ==
  LET fa == gum_interceptor_resolve(S.fba, address)
      r == gum_interceptor_instrument(S, "default", fa)
  IN IF r.c = NULL
     THEN [S |-> r.S, result |-> r.error]
     ELSE IF gum_function_context_has_listener(r.S.ctx[r.c], l)
     THEN [S |-> r.S, result |-> "already_attached"]
     ELSE [S |-> gum_function_context_add_listener(r.S, r.c, l, d),
           result |-> "ok"]

\* Faulty variant: an installed replacement is overwritten.
replace_overwrites(S, type, address, fn, data) ==
  LET fa == gum_interceptor_resolve(S.fba, address)
      r == gum_interceptor_instrument(S, type, fa)
  IN IF r.c = NULL
     THEN [S |-> r.S, result |-> r.error, out |-> Unwritten]
     ELSE [S |-> [r.S EXCEPT !.ctx[r.c].replacement_data = data,
                             !.ctx[r.c].replacement_function = fn],
           result |-> "ok",
           out |-> Written(r.c)]

\* The body of gum_interceptor_replace_with_type; out is what is written
\* through original_function (Unwritten when nothing is).
ReplaceBody(S, type, address, fn, data) ==
  LET fa == gum_interceptor_resolve(S.fba, address)
      r == gum_interceptor_instrument(S, type, fa)
  IN IF r.c = NULL
     THEN [S |-> r.S, result |-> r.error, out |-> Unwritten]
     ELSE IF r.S.ctx[r.c].replacement_function # NULL
     THEN [S |-> r.S, result |-> "already_replaced", out |-> Unwritten]
     ELSE [S |-> [r.S EXCEPT !.ctx[r.c].replacement_data = data,
                             !.ctx[r.c].replacement_function = fn],
           result |-> "ok",
           out |-> Written(r.c)]

\* Faulty variant: revert clears the replacement and leaves the context in
\* the map even when nothing uses it any more.
revert_keeps_context(S, address) ==
  LET fa == gum_interceptor_resolve(S.fba, address)
      id == S.fba[fa]
  IN IF id = NULL THEN S
     ELSE [S EXCEPT !.ctx[id].replacement_function = NULL,
                    !.ctx[id].replacement_data = NULL]

\* The body of gum_interceptor_revert.
RevertBody(S, address) ==
  LET fa == gum_interceptor_resolve(S.fba, address)
      id == S.fba[fa]
  IN IF id = NULL THEN S
     ELSE LET S1 == [S EXCEPT !.ctx[id].replacement_function = NULL,
                              !.ctx[id].replacement_data = NULL]
          IN IF gum_function_context_is_empty(S1.ctx[id])
             THEN HashTableRemove(S1, fa) ELSE S1

\* gum_interceptor_transaction_begin
gum_interceptor_transaction_begin(S) == [S EXCEPT !.tx.level = @ + 1]

BeginDirty(S) ==
  [gum_interceptor_transaction_begin(S) EXCEPT !.tx.is_dirty = TRUE]

\* ------------------------------------------------------------------------
\* Initial state: a freshly obtained interceptor, nothing instrumented
\* ------------------------------------------------------------------------
IdleCommit ==
  [pc |-> "idle", op |-> "none", ign |-> 0, destroy |-> <<>>, update |-> <<>>,
   addresses |-> <<>>, i |-> 1, j |-> 1, task |-> <<>>,
   suspended_threads |-> <<>>, staged |-> <<>>, quiet |-> FALSE,
   cleared |-> {}, stray |-> FALSE]

NoResult == [result |-> "none", out |-> Unwritten]

OriginalCode == [a \in FuncAddrs |-> [p \in PagesOf(a) |-> NULL]]

InitOn(hosts) ==
  /\ alive = "alive"
  /\ aborted = FALSE
  /\ function_by_address = [a \in AllAddrs |-> NULL]
  /\ ctx = [id \in CtxIds |-> NoCtx]
  /\ current_transaction = EmptyTransaction
  /\ mutex = [owner |-> NULL, count |-> 0]
  /\ selected_thread_id = 0
  /\ thread_ctx = [t \in Threads |->
                    [ignore_level |-> 0, stack |-> <<>>, system_error |-> 0,
                     ignoring_others |-> FALSE]]
  /\ guard = [t \in Threads |-> FALSE]
  /\ code = OriginalCode
  /\ prot = [p \in Pages |-> "rx"]
  /\ suspended = {}
  /\ host \in hosts
  /\ commit = [t \in Threads |-> IdleCommit]
  /\ call = [t \in Threads |-> <<>>]
  /\ released = {}
  /\ last = NoResult

Init == InitOn(Hosts)

StateOf == [fba |-> function_by_address, ctx |-> ctx,
            tx |-> current_transaction, aborted |-> aborted]

\* ------------------------------------------------------------------------
\* gum_interceptor_transaction_end, up to the point where the commit starts
\* ------------------------------------------------------------------------
\* Position of the first update task at or after (i, j) in the sorted pages.
RECURSIVE NextTask(_, _, _, _)
NextTask(update, addresses, i, j) ==
  IF i > Len(addresses) THEN [i |-> i, j |-> 1]
  ELSE IF j <= Len(update[addresses[i]]) THEN [i |-> i, j |-> j]
  ELSE NextTask(update, addresses, i + 1, 1)

\* What follows the update loop; with no target page there is nothing to map.
PhaseAfterUpdate(addresses) ==
  IF gum_process_get_code_signing_policy = "required" THEN "drain"
  ELSE IF gum_query_is_rwx_supported THEN "clear"
  ELSE IF ~ gum_code_segment_is_supported THEN "unprotect"
  ELSE IF addresses = <<>> THEN "drain"
  ELSE "map"

\* The update loop, or what follows it when no task is left to run.
UpdateOrAfter(addresses, i) ==
  IF i > Len(addresses) THEN PhaseAfterUpdate(addresses) ELSE "update"

\* Where the commit starts, by what the host allows.
FirstPhase(addresses, i) ==
  IF gum_process_get_code_signing_policy = "required" THEN UpdateOrAfter(addresses, i)
  ELSE IF gum_query_is_rwx_supported THEN "protect"
  ELSE IF ~ gum_code_segment_is_supported THEN "suspend"
  ELSE "stage"

\* The transaction is moved into a local copy and its pages are sorted.
\* A flush starts quiet when every destroy task it finds belongs to a
\* destroyed context with a usage counter of zero and no thread is inside a
\* call that entered that context.
StartsQuiet(op, tx) ==
  /\ op = "flush"
  /\ \A n \in DOMAIN tx.pending_destroy_tasks :
       LET id == tx.pending_destroy_tasks[n].ctx
       IN /\ ctx[id].destroyed
          /\ ctx[id].trampoline_usage_counter = 0
          /\ \A t \in Threads : \A i \in DOMAIN call[t] : call[t][i].c # id

StartCommit(op, ign, tx, keys) ==
  LET addresses == SortPages(keys)
      pos == NextTask(tx.pending_update_tasks, addresses, 1, 1)
  IN [IdleCommit EXCEPT !.pc = FirstPhase(addresses, pos.i), !.op = op, !.ign = ign,
                        !.quiet = StartsQuiet(op, tx),
                        !.destroy = tx.pending_destroy_tasks,
                        !.update = tx.pending_update_tasks,
                        !.addresses = addresses,
                        !.i = pos.i, !.j = pos.j]

\* Faulty variant: transaction_end does not look at the level.
transaction_end_ignores_level(tx) == ~ tx.is_dirty

\* Faulty variant: transaction_end also commits one level above zero.
transaction_end_commits_nested(tx) == tx.level > 1 \/ ~ tx.is_dirty

TransactionReturns(tx) == tx.level > 0 \/ ~ tx.is_dirty

TransactionHasNoChanges(tx) ==
  /\ tx.pending_destroy_tasks = <<>>
  /\ DOMAIN tx.pending_update_tasks = {}

\* The caller's epilogue after transaction_end: S is the state its body left,
\* ign the ignore levels the caller itself holds (attach and detach: 1).
EndTransaction(t, S, op, ign, result, out) ==
  LET tx1 == [S.tx EXCEPT !.level = @ - 1] IN
  /\ Len(S.tx.pending_destroy_tasks) <= MaxTasks
  /\ function_by_address' = S.fba
  /\ ctx' = S.ctx
  /\ aborted' = S.aborted
  /\ last' = [result |-> result, out |-> out]
  /\ IF TransactionReturns(tx1)
     THEN /\ current_transaction' = tx1
          /\ UNCHANGED <<commit, mutex, thread_ctx>>
     ELSE IF TransactionHasNoChanges(tx1)
     THEN /\ current_transaction' = [tx1 EXCEPT !.is_dirty = FALSE]
          /\ UNCHANGED <<commit, mutex, thread_ctx>>
     ELSE /\ current_transaction' = EmptyTransaction
          /\ \E keys \in KeyOrders(DOMAIN tx1.pending_update_tasks) :
               commit' = [commit EXCEPT ![t] = StartCommit(op, ign, tx1, keys)]
          /\ mutex' = [owner |-> t, count |-> 1]
          /\ thread_ctx' = [thread_ctx EXCEPT ![t].ignore_level = @ + ign + 1]
  /\ UNCHANGED <<selected_thread_id, guard, code, prot, suspended,
                 host, call, released>>

\* A thread may enter a public operation: it is at its top level, running,
\* and the interceptor's lock is free.
ApiEnabled(t) ==
  /\ alive = "alive"
  /\ ~ aborted
  /\ commit[t].pc = "idle"
  /\ call[t] = <<>>
  /\ t \notin suspended
  /\ mutex.owner = NULL

\* ------------------------------------------------------------------------
\* Public operations
\* ------------------------------------------------------------------------
\* gum_interceptor_attach
Attach(t, address, l, d) ==
  /\ ApiEnabled(t)
  /\ CanInstrument(StateOf, gum_interceptor_resolve(function_by_address, address))
  /\ LET r == AttachBody(BeginDirty(StateOf), address, l, d)
     IN EndTransaction(t, r.S, "attach", 1, r.result, Unwritten)
  /\ UNCHANGED alive

\* gum_interceptor_detach; the map is iterated in some order.
Detach(t, l) ==
  /\ ApiEnabled(t)
  /\ \E order \in {<<AddrF, AddrG>>, <<AddrG, AddrF>>} :
       EndTransaction(t, DetachLoop(BeginDirty(StateOf), l, order),
                      "detach", 1, "void", Unwritten)
  /\ UNCHANGED alive

\* gum_interceptor_replace
Replace(t, address, fn, data) ==
  /\ ApiEnabled(t)
  /\ CanInstrument(StateOf, gum_interceptor_resolve(function_by_address, address))
  /\ LET r == ReplaceBody(BeginDirty(StateOf), "default", address, fn, data)
     IN EndTransaction(t, r.S, "replace", 0, r.result, r.out)
  /\ UNCHANGED alive

\* gum_interceptor_replace_fast
ReplaceFast(t, address, fn) ==
  /\ ApiEnabled(t)
  /\ CanInstrument(StateOf, gum_interceptor_resolve(function_by_address, address))
  /\ LET r == ReplaceBody(BeginDirty(StateOf), "fast", address, fn, NULL)
     IN EndTransaction(t, r.S, "replace_fast", 0, r.result, r.out)
  /\ UNCHANGED alive

\* gum_interceptor_revert
Revert(t, address) ==
  /\ ApiEnabled(t)
  /\ EndTransaction(t, RevertBody(BeginDirty(StateOf), address),
                    "revert", 0, "void", Unwritten)
  /\ UNCHANGED alive

\* gum_interceptor_begin_transaction
BeginTransaction(t) ==
  /\ ApiEnabled(t)
  /\ current_transaction.level < MaxLevel
  /\ current_transaction' = gum_interceptor_transaction_begin(StateOf).tx
  /\ last' = [result |-> "void", out |-> Unwritten]
  /\ UNCHANGED <<alive, aborted, function_by_address, ctx, mutex,
                 selected_thread_id, thread_ctx, guard, code, prot, suspended,
                 host, commit, call, released>>

\* gum_interceptor_end_transaction (of a transaction that was begun)
EndTransactionOp(t) ==
  /\ ApiEnabled(t)
  /\ current_transaction.level > 0
  /\ EndTransaction(t, StateOf, "end_transaction", 0, "void", Unwritten)
  /\ UNCHANGED alive

\* gum_interceptor_flush: at level zero a begin/end pair; its result is
\* whether the destroy queue is empty once transaction_end has returned.
Flush(t) ==
  /\ ApiEnabled(t)
  /\ IF current_transaction.level = 0
     THEN LET S == gum_interceptor_transaction_begin(StateOf)
              tx1 == [S.tx EXCEPT !.level = @ - 1]
              flushed == IF TransactionReturns(tx1) \/ TransactionHasNoChanges(tx1)
                         THEN IF tx1.pending_destroy_tasks = <<>>
                              THEN "true" ELSE "false"
                         ELSE "pending"
          IN EndTransaction(t, S, "flush", 0, flushed, Unwritten)
     ELSE /\ last' = [result |-> "false", out |-> Unwritten]
          /\ UNCHANGED <<aborted, function_by_address, ctx,
                         current_transaction, mutex, selected_thread_id,
                         thread_ctx, guard, code, prot, suspended, host,
                         commit, call, released>>
  /\ UNCHANGED alive

\* ------------------------------------------------------------------------
\* gum_interceptor_transaction_end: the commit, one step at a time
\* ------------------------------------------------------------------------
Committing(t, pc) ==
  /\ ~ aborted
  /\ t \notin suspended
  /\ commit[t].pc = pc

\* The order in which the threads of a set are enumerated.
RECURSIVE EnumerationOrder(_)
EnumerationOrder(S) ==
  IF S = {} THEN <<>>
  ELSE LET m == CHOOSE x \in S : \A y \in S : x <= y
       IN <<m>> \o EnumerationOrder(S \ {m})

CommitFrame == <<alive, function_by_address, current_transaction,
                 selected_thread_id, guard, host, call, last>>

\* gum_process_enumerate_threads (gum_maybe_suspend_thread): every thread but
\* the current one is suspended, unless gum_thread_suspend fails for it.
CommitSuspend(t) ==
  /\ Committing(t, "suspend")
  /\ \E ok \in SUBSET (Threads \ ({t} \cup suspended)) :
       /\ suspended' = suspended \cup ok
       /\ commit' = [commit EXCEPT ![t].pc = "protect",
                                   ![t].suspended_threads = EnumerationOrder(ok)]
  /\ UNCHANGED <<aborted, ctx, mutex, thread_ctx, code, prot, released>>
  /\ UNCHANGED CommitFrame

\* gum_mprotect of every target page to RWX (or RW without RWX support).
CommitProtect(t) ==
  /\ Committing(t, "protect")
  /\ prot' = [p \in Pages |->
                IF \E k \in 1..Len(commit[t].addresses) : commit[t].addresses[k] = p
                THEN (IF gum_query_is_rwx_supported THEN "rwx" ELSE "rw")
                ELSE prot[p]]
  /\ commit' = [commit EXCEPT ![t].pc =
                  UpdateOrAfter(commit[t].addresses, commit[t].i)]
  /\ UNCHANGED <<aborted, ctx, mutex, thread_ctx, code, suspended, released>>
  /\ UNCHANGED CommitFrame

\* The staging segment receives a copy of every target page.
CommitStage(t) ==
  /\ Committing(t, "stage")
  /\ commit' = [commit EXCEPT ![t].pc =
                    UpdateOrAfter(commit[t].addresses, commit[t].i),
                  ![t].staged = code]
  /\ UNCHANGED <<aborted, ctx, mutex, thread_ctx, code, prot, suspended, released>>
  /\ UNCHANGED CommitFrame

\* _gum_interceptor_backend_activate_trampoline / deactivate_trampoline: the
\* prologue at the given place jumps to the context's trampoline, or holds
\* the original bytes again.
backend_write_prologue(bytes, a, value) ==
  [bytes EXCEPT ![a] = [p \in PagesOf(a) |-> value]]

\* Faulty variant: a context destroyed before its activation ran is activated.
activate_ignores_destroyed(c) ==
  IF c.activated THEN [c |-> c, writes |-> FALSE, failed |-> TRUE]
  ELSE [c |-> [c EXCEPT !.activated = TRUE], writes |-> TRUE, failed |-> FALSE]

\* gum_interceptor_activate
gum_interceptor_activate(c) ==
  IF c.destroyed THEN [c |-> c, writes |-> FALSE, failed |-> FALSE]
  ELSE IF c.activated THEN [c |-> c, writes |-> FALSE, failed |-> TRUE]
  ELSE [c |-> [c EXCEPT !.activated = TRUE], writes |-> TRUE, failed |-> FALSE]

\* gum_interceptor_deactivate
gum_interceptor_deactivate(c) ==
  IF ~ c.activated THEN [c |-> c, writes |-> FALSE, failed |-> TRUE]
  ELSE [c |-> [c EXCEPT !.activated = FALSE], writes |-> TRUE, failed |-> FALSE]

\* The update function is handed the address of the prologue inside the
\* staged copy of the task's page (slot i of the segment): the part of the
\* prologue on its start page lands in slot i, the part beyond the end of that
\* page in slot i + 1. StagedSpillLands tells whether slot i + 1 is the copy
\* of the prologue's end page.
StagedSpillLands(addresses, i, a) ==
  \/ EndPage(a) = StartPage(a)
  \/ i + 1 <= Len(addresses) /\ addresses[i + 1] = EndPage(a)

\* Faulty variant: what the update function writes does not reach the staged
\* copies.
staged_write_prologue_live(staged, addresses, i, a, value) == staged

staged_write_prologue(staged, addresses, i, a, value) ==
  [staged EXCEPT ![a] = [p \in PagesOf(a) |->
     IF p = StartPage(a) \/ StagedSpillLands(addresses, i, a)
     THEN value ELSE staged[a][p]]]

\* One update task of the current page is run: against the live prologue, or
\* against its staged copy when the host maps a code segment over the pages.
\* A write that leaves the staged copies of the prologue's pages (into the
\* copy of another page, or past the end of the segment) may crash.
CommitUpdate(t) ==
  /\ Committing(t, "update")
  /\ LET cm == commit[t]
         update == cm.update[cm.addresses[cm.i]][cm.j]
         id == update.ctx
         r == IF update.func = "activate" THEN gum_interceptor_activate(ctx[id])
              ELSE gum_interceptor_deactivate(ctx[id])
         value == IF update.func = "activate" THEN id ELSE NULL
         a == backend_get_function_address(ctx[id])
         pos == NextTask(cm.update, cm.addresses, cm.i, cm.j + 1)
         staging == gum_process_get_code_signing_policy # "required"
                      /\ ~ gum_query_is_rwx_supported
                      /\ gum_code_segment_is_supported
         stray == r.writes /\ staging /\ ~ StagedSpillLands(cm.addresses, cm.i, a)
     IN /\ ctx' = [ctx EXCEPT ![id] = r.c]
        /\ \E crash \in IF stray THEN BOOLEAN ELSE {FALSE} :
             aborted' = (r.failed \/ crash)
        /\ code' = IF r.writes /\ ~ staging
                   THEN backend_write_prologue(code, a, value) ELSE code
        /\ commit' = [commit EXCEPT
                        ![t].staged = IF r.writes /\ staging
                                      THEN staged_write_prologue(
                                             cm.staged, cm.addresses, cm.i, a, value)
                                      ELSE cm.staged,
                        ![t].stray = @ \/ stray,
                        ![t].i = pos.i, ![t].j = pos.j,
                        ![t].pc = UpdateOrAfter(cm.addresses, pos.i)]
  /\ UNCHANGED <<mutex, thread_ctx, prot, suspended, released>>
  /\ UNCHANGED CommitFrame

\* gum_mprotect of every target page back to RX, then the resume of the
\* suspended threads (hosts without RWX and without code segments).
CommitUnprotect(t) ==
  /\ Committing(t, "unprotect")
  /\ prot' = [p \in Pages |->
                IF \E k \in 1..Len(commit[t].addresses) : commit[t].addresses[k] = p
                THEN "rx" ELSE prot[p]]
  /\ commit' = [commit EXCEPT ![t].pc = "clear"]
  /\ UNCHANGED <<aborted, ctx, mutex, thread_ctx, code, suspended, released>>
  /\ UNCHANGED CommitFrame

\* gum_clear_cache of every target page (hosts that write the live pages).
CommitClearCache(t) ==
  /\ Committing(t, "clear")
  /\ commit' = [commit EXCEPT
                  ![t].cleared = {commit[t].addresses[k] :
                                    k \in 1..Len(commit[t].addresses)},
                  ![t].pc = IF gum_query_is_rwx_supported THEN "drain" ELSE "resume"]
  /\ UNCHANGED <<aborted, ctx, mutex, thread_ctx, code, prot, suspended, released>>
  /\ UNCHANGED CommitFrame

CommitResume(t) ==
  /\ Committing(t, "resume")
  /\ suspended' = suspended \ {commit[t].suspended_threads[k] :
                                 k \in 1..Len(commit[t].suspended_threads)}
  /\ commit' = [commit EXCEPT ![t].pc = "drain", ![t].suspended_threads = <<>>]
  /\ UNCHANGED <<aborted, ctx, mutex, thread_ctx, code, prot, released>>
  /\ UNCHANGED CommitFrame

\* gum_code_segment_map and gum_clear_cache: one staged page replaces its
\* target page.
CommitMap(t) ==
  /\ Committing(t, "map")
  /\ LET cm == commit[t]
         k == cm.i - Len(cm.addresses)
         page == cm.addresses[k]
     IN /\ k <= Len(cm.addresses)
        /\ code' = [a \in FuncAddrs |-> [p \in PagesOf(a) |->
                      IF p = page THEN cm.staged[a][p] ELSE code[a][p]]]
        /\ commit' = [commit EXCEPT ![t].i = cm.i + 1,
                        ![t].cleared = @ \cup {page},
                        ![t].pc = IF k = Len(cm.addresses) THEN "drain" ELSE "map"]
  /\ UNCHANGED <<aborted, ctx, mutex, thread_ctx, prot, suspended, released>>
  /\ UNCHANGED CommitFrame

\* Faulty variant: the callback of a destroy task is called with the lock held.
commit_drain_keeps_lock(t) ==
  /\ Committing(t, "drain")
  /\ commit[t].destroy # <<>>
  /\ LET task == Head(commit[t].destroy)
         c == ctx[task.ctx]
     IN \E zero \in IF c.state = "freed" THEN BOOLEAN
                    ELSE {c.trampoline_usage_counter = 0} :
          IF zero
          THEN /\ UNCHANGED mutex
               /\ commit' = [commit EXCEPT ![t].pc = "notify",
                                           ![t].destroy = Tail(@),
                                           ![t].task = <<task>>]
               /\ UNCHANGED current_transaction
          ELSE /\ current_transaction' =
                    [current_transaction EXCEPT
                       !.is_dirty = TRUE,
                       !.pending_destroy_tasks = Append(@, task)]
               /\ commit' = [commit EXCEPT ![t].destroy = Tail(@)]
               /\ UNCHANGED mutex
  /\ UNCHANGED <<alive, aborted, function_by_address, ctx, selected_thread_id,
                 thread_ctx, guard, code, prot, suspended, host, call,
                 released, last>>

\* The destroy drain looks at the head task: with a usage counter of zero the
\* lock is released for the callback, otherwise the task goes to the tail of
\* the new current transaction. The counter of a context whose memory has
\* been released is whatever the freed memory holds.
CommitDrain(t) ==
  /\ Committing(t, "drain")
  /\ commit[t].destroy # <<>>
  /\ LET task == Head(commit[t].destroy)
         c == ctx[task.ctx]
     IN \E zero \in IF c.state = "freed" THEN BOOLEAN
                    ELSE {c.trampoline_usage_counter = 0} :
          IF zero
          THEN /\ mutex' = IF mutex.count = 1 THEN [owner |-> NULL, count |-> 0]
                           ELSE [mutex EXCEPT !.count = @ - 1]
               /\ commit' = [commit EXCEPT ![t].pc = "notify",
                                           ![t].destroy = Tail(@),
                                           ![t].task = <<task>>]
               /\ UNCHANGED current_transaction
          ELSE /\ current_transaction' =
                    [current_transaction EXCEPT
                       !.is_dirty = TRUE,
                       !.pending_destroy_tasks = Append(@, task)]
               /\ commit' = [commit EXCEPT ![t].destroy = Tail(@)]
               /\ UNCHANGED mutex
  /\ UNCHANGED <<alive, aborted, function_by_address, ctx, selected_thread_id,
                 thread_ctx, guard, code, prot, suspended, host, call,
                 released, last>>

\* gum_function_context_perform_destroy: the backend releases the trampoline
\* and gum_function_context_finalize frees the context with its listener list.
gum_function_context_perform_destroy(cs, id) ==
  [cs EXCEPT ![id] = [NoCtx EXCEPT !.state = "freed",
                                   !.function_address = cs[id].function_address,
                                   !.type = cs[id].type,
                                   !.destroyed = cs[id].destroyed,
                                   !.trampoline_usage_counter =
                                      cs[id].trampoline_usage_counter]]

\* What running a destroy task's callback does to the contexts.
RunNotify(cs, task) ==
  IF task.notify = "perform_destroy"
  THEN gum_function_context_perform_destroy(cs, task.data.function_ctx)
  ELSE cs

ReleaseRecord(cs, task, path) ==
  IF task.notify = "perform_destroy"
  THEN {[ctx |-> task.data.function_ctx,
         counter |-> cs[task.data.function_ctx].trampoline_usage_counter,
         path |-> path]}
  ELSE {}

\* task->notify (task->data), called without the interceptor's lock.
CommitNotify(t) ==
  /\ Committing(t, "notify")
  /\ LET task == commit[t].task[1]
     IN /\ ctx' = RunNotify(ctx, task)
        /\ released' = released \cup ReleaseRecord(ctx, task, "commit")
  /\ commit' = [commit EXCEPT ![t].pc = "relock", ![t].task = <<>>]
  /\ UNCHANGED <<alive, aborted, function_by_address, current_transaction,
                 mutex, selected_thread_id, thread_ctx, guard, code, prot,
                 suspended, host, call, last>>

\* A thread is inside the callback of a destroy task and may enter a public
\* operation from there: the lock is free.
InCallback(t) ==
  /\ alive = "alive"
  /\ Committing(t, "notify")
  /\ mutex.owner = NULL

\* The callback calls gum_interceptor_begin_transaction.
CallbackBeginsTransaction(t) ==
  /\ InCallback(t)
  /\ current_transaction.level < MaxLevel
  /\ current_transaction' = gum_interceptor_transaction_begin(StateOf).tx
  /\ UNCHANGED <<alive, aborted, function_by_address, ctx, mutex,
                 selected_thread_id, thread_ctx, guard, code, prot, suspended,
                 host, commit, call, released, last>>

\* The callback calls gum_interceptor_attach inside the explicit transaction
\* it has begun: the attach's transaction_end returns above level zero.
CallbackAttaches(t, address, l, d) ==
  /\ InCallback(t)
  /\ current_transaction.level > 0
  /\ CanInstrument(StateOf, gum_interceptor_resolve(function_by_address, address))
  /\ LET r == AttachBody(BeginDirty(StateOf), address, l, d)
     IN EndTransaction(t, r.S, "attach", 1, r.result, Unwritten)
  /\ UNCHANGED alive

\* GUM_INTERCEPTOR_LOCK after the callback.
CommitRelock(t) ==
  /\ Committing(t, "relock")
  /\ mutex.owner = NULL
  /\ mutex' = [owner |-> t, count |-> 1]
  /\ commit' = [commit EXCEPT ![t].pc = "drain"]
  /\ UNCHANGED <<alive, aborted, function_by_address, ctx, current_transaction,
                 selected_thread_id, thread_ctx, guard, code, prot, suspended,
                 host, call, released, last>>

\* Faulty variant: a flush that committed reports TRUE whatever is left in
\* the destroy queue.
commit_finish_reports_flushed(t) ==
  /\ Committing(t, "drain")
  /\ commit[t].destroy = <<>>
  /\ mutex' = [owner |-> NULL, count |-> 0]
  /\ thread_ctx' = [thread_ctx EXCEPT ![t].ignore_level = @ - commit[t].ign - 1]
  /\ commit' = [commit EXCEPT ![t] = IdleCommit]
  /\ last' = IF commit[t].op = "flush" THEN [last EXCEPT !.result = "true"] ELSE last
  /\ UNCHANGED <<alive, aborted, function_by_address, ctx, current_transaction,
                 selected_thread_id, guard, code, prot, suspended, host, call,
                 released>>

\* The drain is over: transaction_end unignores the thread and returns, and
\* the public operation unlocks (attach and detach also unignore).
CommitFinish(t) ==
  /\ Committing(t, "drain")
  /\ commit[t].destroy = <<>>
  /\ mutex' = [owner |-> NULL, count |-> 0]
  /\ thread_ctx' = [thread_ctx EXCEPT ![t].ignore_level = @ - commit[t].ign - 1]
  /\ commit' = [commit EXCEPT ![t] = IdleCommit]
  /\ last' = IF commit[t].op = "flush"
             THEN [last EXCEPT !.result =
                     IF current_transaction.pending_destroy_tasks = <<>>
                     THEN "true" ELSE "false"]
             ELSE last
  /\ UNCHANGED <<alive, aborted, function_by_address, ctx, current_transaction,
                 selected_thread_id, guard, code, prot, suspended, host, call,
                 released>>

\* ------------------------------------------------------------------------
\* Teardown of the interceptor
\* ------------------------------------------------------------------------
\* g_hash_table_remove_all: every context of the map is destroyed.
RECURSIVE RemoveAll(_, _)
RemoveAll(S, order) ==
  IF order = <<>> THEN S
  ELSE IF S.fba[Head(order)] = NULL THEN RemoveAll(S, Tail(order))
  ELSE RemoveAll(HashTableRemove(S, Head(order)), Tail(order))

\* gum_interceptor_do_dispose (the last reference is dropped)
Dispose(t) ==
  /\ ApiEnabled(t)
  /\ current_transaction.level = 0
  /\ \E order \in {<<AddrF, AddrG>>, <<AddrG, AddrF>>} :
       EndTransaction(t, RemoveAll(BeginDirty(StateOf), order),
                      "dispose", 0, "void", Unwritten)
  /\ alive' = "disposed"

\* The loop of gum_interceptor_transaction_destroy: every remaining destroy
\* task is run, whatever its context's usage counter.
RECURSIVE TransactionDestroy(_, _, _)
TransactionDestroy(cs, rel, tasks) ==
  IF tasks = <<>> THEN [ctx |-> cs, released |-> rel]
  ELSE TransactionDestroy(RunNotify(cs, Head(tasks)),
                          rel \cup ReleaseRecord(cs, Head(tasks), "finalize"),
                          Tail(tasks))

\* gum_interceptor_do_finalize, after dispose
Finalize(t) ==
  /\ alive = "disposed"
  /\ ~ aborted
  /\ \A u \in Threads : commit[u].pc = "idle"
  /\ t \notin suspended
  /\ LET r == TransactionDestroy(ctx, released,
                                 current_transaction.pending_destroy_tasks)
     IN /\ ctx' = r.ctx
        /\ released' = r.released
  /\ current_transaction' = EmptyTransaction
  /\ alive' = "finalized"
  /\ UNCHANGED <<aborted, function_by_address, mutex, selected_thread_id,
                 thread_ctx, guard, code, prot, suspended, host, commit, call,
                 last>>

\* ------------------------------------------------------------------------
\* Ignoring threads
\* ------------------------------------------------------------------------
CallerFrame == <<alive, aborted, function_by_address, ctx, current_transaction,
                 mutex, guard, code, prot, suspended, host, commit, call,
                 released, last>>

\* A thread runs application code at its top level.
AtTopLevel(t) ==
  /\ ~ aborted
  /\ commit[t].pc = "idle"
  /\ call[t] = <<>>
  /\ t \notin suspended

\* gum_interceptor_ignore_current_thread
IgnoreCurrentThread(t) ==
  /\ AtTopLevel(t)
  /\ thread_ctx[t].ignore_level < MaxIgnore
  /\ thread_ctx' = [thread_ctx EXCEPT ![t].ignore_level = @ + 1]
  /\ UNCHANGED selected_thread_id
  /\ UNCHANGED CallerFrame

\* gum_interceptor_unignore_current_thread (after a matching ignore)
UnignoreCurrentThread(t) ==
  /\ AtTopLevel(t)
  /\ thread_ctx[t].ignore_level > 0
  /\ thread_ctx' = [thread_ctx EXCEPT ![t].ignore_level = @ - 1]
  /\ UNCHANGED selected_thread_id
  /\ UNCHANGED CallerFrame

\* gum_interceptor_ignore_other_threads: the field is assigned, whatever it
\* held. ignoring_others records that the thread owes the matching
\* unignore_other_threads (the caller's bookkeeping, not a field of the code).
IgnoreOtherThreads(t) ==
  /\ AtTopLevel(t)
  /\ ~ thread_ctx[t].ignoring_others
  /\ selected_thread_id' = t
  /\ thread_ctx' = [thread_ctx EXCEPT ![t].ignoring_others = TRUE]
  /\ UNCHANGED CallerFrame

\* gum_interceptor_unignore_other_threads, after the thread's own
\* ignore_other_threads: the assertion, then the field is cleared.
UnignoreOtherThreads(t) ==
  /\ AtTopLevel(t)
  /\ thread_ctx[t].ignoring_others
  /\ IF selected_thread_id = t
     THEN selected_thread_id' = 0 /\ UNCHANGED aborted
     ELSE aborted' = TRUE /\ UNCHANGED selected_thread_id
  /\ thread_ctx' = [thread_ctx EXCEPT ![t].ignoring_others = FALSE]
  /\ UNCHANGED <<alive, function_by_address, ctx, current_transaction,
                 mutex, guard, code, prot, suspended, host, commit, call,
                 released, last>>

\* ------------------------------------------------------------------------
\* Intercepted calls: the native call stack of a thread and the two handlers
\* ------------------------------------------------------------------------
\* A native frame: the function called, the context whose trampoline the call
\* went through (NULL for an unpatched prologue), where the thread is, whether
\* its return address was redirected to the on-leave trampoline, whether the
\* entry handler dispatched to listeners, the listeners whose on_enter and
\* on_leave ran (in order), the listeners that had a live entry when each
\* handler ran, and the number of through-calls a replacement has made.
NewFrame(f, c, pc) ==
  [f |-> f, c |-> c, pc |-> pc, trap |-> FALSE, dispatch |-> FALSE,
   enter |-> <<>>, leave |-> <<>>, live_enter |-> {}, live_leave |-> {},
   k |-> 0, allowed |-> FALSE,
   system_error |-> 0, original_system_error |-> 0,
   wrote_enter |-> NoWrite, entered_error |-> 0, replacement_wrote |-> NoWrite,
   returned_error |-> 0, leave_start_error |-> 0, wrote_leave |-> NoWrite,
   next_hop |-> NULL, list_id |-> 0, listener_entries |-> <<>>,
   enter_slots |-> <<>>, state |-> NoState, jumps |-> 0, discarded |-> 0]

Top(t) == call[t][Len(call[t])]
SetTop(t, fr) == [call EXCEPT ![t][Len(call[t])] = fr]
Pop(t) == [call EXCEPT ![t] = SubSeq(@, 1, Len(@) - 1)]

Running(t) ==
  /\ ~ aborted
  /\ commit[t].pc = "idle"
  /\ t \notin suspended

At(t, pc) ==
  /\ Running(t)
  /\ call[t] # <<>>
  /\ Top(t).pc = pc

\* What a caller of function a finds at its prologue: the jump to a context's
\* on-enter trampoline or the original bytes; a prologue of which only one
\* page has been remapped may be read either way.
PrologueTargets(a) == {code[a][p] : p \in PagesOf(a)}

Executable(a) == \A p \in PagesOf(a) : prot[p] \in {"rx", "rwx"}

FrameAt(a, target) ==
  IF target = NULL THEN NewFrame(a, NULL, "function")
  ELSE NewFrame(a, target, "on_enter_trampoline")

\* The application calls function a.
CallFunction(t, a) ==
  /\ AtTopLevel(t)
  /\ Executable(a)
  /\ \E target \in PrologueTargets(a) :
       call' = [call EXCEPT ![t] = <<FrameAt(a, target)>>]
  /\ UNCHANGED <<alive, aborted, function_by_address, ctx, current_transaction,
                 mutex, selected_thread_id, thread_ctx, guard, code, prot,
                 suspended, host, commit, released, last>>

ListenersOf(entries) ==
  {entries[i].listener_instance :
     i \in {j \in 1..Len(entries) : entries[j] # NullEntry}}

RECURSIVE OnEnterPass(_)
OnEnterPass(entries) ==
  IF entries = <<>> THEN <<>>
  ELSE IF Head(entries) # NullEntry /\ HasOnEnter(Head(entries).listener_instance)
  THEN <<Head(entries).listener_instance>> \o OnEnterPass(Tail(entries))
  ELSE OnEnterPass(Tail(entries))

\* The slots (from slot i on) whose entries' on_enter runs: the index that
\* selects listener_invocation_data for each.
RECURSIVE OnEnterSlots(_, _)
OnEnterSlots(entries, i) ==
  IF i > Len(entries) THEN <<>>
  ELSE IF entries[i] # NullEntry /\ HasOnEnter(entries[i].listener_instance)
  THEN <<i>> \o OnEnterSlots(entries, i + 1)
  ELSE OnEnterSlots(entries, i + 1)

RECURSIVE OnLeavePass(_)
OnLeavePass(entries) ==
  IF entries = <<>> THEN <<>>
  ELSE IF Head(entries) # NullEntry /\ HasOnLeave(Head(entries).listener_instance)
  THEN <<Head(entries).listener_instance>> \o OnLeavePass(Tail(entries))
  ELSE OnLeavePass(Tail(entries))

\* The return address the caller of thread t's top frame passed: the call
\* site in the frame below (the addresses from 100 on stand for call sites,
\* one per nesting depth).
CallerReturnAddress(t) == 100 + Len(call[t]) - 1

\* Faulty variant: the entry always records the function's address.
invocation_stack_push_function_address(stack, id, c, caller_ret_addr) ==
  Append(stack, [function_ctx |-> id, function |-> c.function_address,
                 caller_ret_addr |-> c.function_address,
                 calling_replacement |-> FALSE])

\* gum_invocation_stack_push
gum_invocation_stack_push(stack, id, c, caller_ret_addr) ==
  Append(stack, [function_ctx |-> id, function |-> c.function_address,
                 caller_ret_addr |-> caller_ret_addr,
                 calling_replacement |-> FALSE])

\* Faulty variant: the entry stays on the stack.
invocation_stack_pop_keeps_entry(stack) == stack

\* gum_invocation_stack_pop
gum_invocation_stack_pop(stack) == SubSeq(stack, 1, Len(stack) - 1)

\* gum_invocation_stack_peek_top (of a stack that is not empty)
gum_invocation_stack_peek_top(stack) == stack[Len(stack)]

\* Faulty variant: the entry handler does not look at the top of the
\* invocation stack, so a replacement's call of its own function is handled
\* like any other call.
begin_invocation_without_bypass(t, fr, id, c, guarded, stack) ==
  LET counter == c.trampoline_usage_counter + 1
      selected == IF selected_thread_id # 0 THEN t = selected_thread_id ELSE TRUE
      invoke_listeners == IF selected THEN thread_ctx[t].ignore_level <= 0 ELSE FALSE
      will_trap_on_leave == \/ c.replacement_function # NULL
                            \/ (invoke_listeners /\ c.has_on_leave_listener)
      pushed == IF will_trap_on_leave \/ invoke_listeners
                THEN gum_invocation_stack_push(
                       stack, id, c,
                       IF will_trap_on_leave THEN CallerReturnAddress(t)
                       ELSE c.function_address)
                ELSE stack
      popped == IF ~ will_trap_on_leave /\ invoke_listeners
                THEN gum_invocation_stack_pop(pushed) ELSE pushed
      final == IF c.replacement_function # NULL
               THEN [popped EXCEPT ![Len(popped)].calling_replacement = TRUE]
               ELSE popped
  IN IF guarded
     THEN [frame |-> [fr EXCEPT !.pc = "on_invoke_trampoline"],
           counter |-> counter - 1, stack |-> stack, bypass |-> TRUE]
     ELSE [frame |-> [fr EXCEPT
                        !.pc = IF c.replacement_function # NULL
                               THEN "replacement" ELSE "on_invoke_trampoline",
                        !.trap = will_trap_on_leave,
                        !.dispatch = invoke_listeners,
                        !.enter = IF invoke_listeners
                                  THEN OnEnterPass(c.listener_entries) ELSE <<>>,
                        !.enter_slots = IF invoke_listeners
                                        THEN OnEnterSlots(c.listener_entries, 1)
                                        ELSE <<>>,
                        !.live_enter = ListenersOf(c.listener_entries)],
           counter |-> IF will_trap_on_leave THEN counter ELSE counter - 1,
           stack |-> final, bypass |-> FALSE]

\* Faulty variant: the entry handler does not look at the guard.
begin_invocation_ignores_guard(t, fr, id, c, guarded, stack) ==
  LET counter == c.trampoline_usage_counter + 1
      calling == /\ stack # <<>>
                 /\ gum_invocation_stack_peek_top(stack).calling_replacement
                 /\ gum_invocation_stack_peek_top(stack).function = c.function_address
      selected == IF selected_thread_id # 0 THEN t = selected_thread_id ELSE TRUE
      invoke_listeners == IF selected THEN thread_ctx[t].ignore_level <= 0 ELSE FALSE
      will_trap_on_leave == \/ c.replacement_function # NULL
                            \/ (invoke_listeners /\ c.has_on_leave_listener)
      pushed == IF will_trap_on_leave \/ invoke_listeners
                THEN gum_invocation_stack_push(
                       stack, id, c,
                       IF will_trap_on_leave THEN CallerReturnAddress(t)
                       ELSE c.function_address)
                ELSE stack
      popped == IF ~ will_trap_on_leave /\ invoke_listeners
                THEN gum_invocation_stack_pop(pushed) ELSE pushed
      final == IF c.replacement_function # NULL
               THEN [popped EXCEPT ![Len(popped)].calling_replacement = TRUE]
               ELSE popped
  IN IF calling
     THEN [frame |-> [fr EXCEPT !.pc = "on_invoke_trampoline"],
           counter |-> counter - 1, stack |-> stack, bypass |-> TRUE]
     ELSE [frame |-> [fr EXCEPT
                        !.pc = IF c.replacement_function # NULL
                               THEN "replacement" ELSE "on_invoke_trampoline",
                        !.trap = will_trap_on_leave,
                        !.dispatch = invoke_listeners,
                        !.enter = IF invoke_listeners
                                  THEN OnEnterPass(c.listener_entries) ELSE <<>>,
                        !.enter_slots = IF invoke_listeners
                                        THEN OnEnterSlots(c.listener_entries, 1)
                                        ELSE <<>>,
                        !.live_enter = ListenersOf(c.listener_entries)],
           counter |-> IF will_trap_on_leave THEN counter ELSE counter - 1,
           stack |-> final, bypass |-> FALSE]

\* Faulty variant: the bypass leaves the usage counter incremented.
begin_invocation_bypass_keeps_count(t, fr, id, c, guarded, stack) ==
  LET counter == c.trampoline_usage_counter + 1
      calling == /\ stack # <<>>
                 /\ gum_invocation_stack_peek_top(stack).calling_replacement
                 /\ gum_invocation_stack_peek_top(stack).function = c.function_address
      selected == IF selected_thread_id # 0 THEN t = selected_thread_id ELSE TRUE
      invoke_listeners == IF selected THEN thread_ctx[t].ignore_level <= 0 ELSE FALSE
      will_trap_on_leave == \/ c.replacement_function # NULL
                            \/ (invoke_listeners /\ c.has_on_leave_listener)
      pushed == IF will_trap_on_leave \/ invoke_listeners
                THEN gum_invocation_stack_push(
                       stack, id, c,
                       IF will_trap_on_leave THEN CallerReturnAddress(t)
                       ELSE c.function_address)
                ELSE stack
      popped == IF ~ will_trap_on_leave /\ invoke_listeners
                THEN gum_invocation_stack_pop(pushed) ELSE pushed
      final == IF c.replacement_function # NULL
               THEN [popped EXCEPT ![Len(popped)].calling_replacement = TRUE]
               ELSE popped
  IN IF guarded \/ calling
     THEN [frame |-> [fr EXCEPT !.pc = "on_invoke_trampoline"],
           counter |-> counter, stack |-> stack, bypass |-> TRUE]
     ELSE [frame |-> [fr EXCEPT
                        !.pc = IF c.replacement_function # NULL
                               THEN "replacement" ELSE "on_invoke_trampoline",
                        !.trap = will_trap_on_leave,
                        !.dispatch = invoke_listeners,
                        !.enter = IF invoke_listeners
                                  THEN OnEnterPass(c.listener_entries) ELSE <<>>,
                        !.enter_slots = IF invoke_listeners
                                        THEN OnEnterSlots(c.listener_entries, 1)
                                        ELSE <<>>,
                        !.live_enter = ListenersOf(c.listener_entries)],
           counter |-> IF will_trap_on_leave THEN counter ELSE counter - 1,
           stack |-> final, bypass |-> FALSE]

\* _gum_function_context_begin_invocation, as a function of the thread's
\* frame fr, the context c (of identity id), the thread's guard and
\* invocation stack: the frame the thread continues with (next_hop), the
\* usage counter and the invocation stack it leaves.
gum_function_context_begin_invocation(t, fr, id, c, guarded, stack) ==
  LET counter == c.trampoline_usage_counter + 1
      calling == /\ stack # <<>>
                 /\ gum_invocation_stack_peek_top(stack).calling_replacement
                 /\ gum_invocation_stack_peek_top(stack).function = c.function_address
      selected == IF selected_thread_id # 0 THEN t = selected_thread_id ELSE TRUE
      invoke_listeners == IF selected THEN thread_ctx[t].ignore_level <= 0 ELSE FALSE
      will_trap_on_leave == \/ c.replacement_function # NULL
                            \/ (invoke_listeners /\ c.has_on_leave_listener)
      pushed == IF will_trap_on_leave \/ invoke_listeners
                THEN gum_invocation_stack_push(
                       stack, id, c,
                       IF will_trap_on_leave THEN CallerReturnAddress(t)
                       ELSE c.function_address)
                ELSE stack
      popped == IF ~ will_trap_on_leave /\ invoke_listeners
                THEN gum_invocation_stack_pop(pushed) ELSE pushed
      final == IF c.replacement_function # NULL
               THEN [popped EXCEPT ![Len(popped)].calling_replacement = TRUE]
               ELSE popped
  IN IF guarded \/ calling
     THEN [frame |-> [fr EXCEPT !.pc = "on_invoke_trampoline"],
           counter |-> counter - 1, stack |-> stack, bypass |-> TRUE]
     ELSE [frame |-> [fr EXCEPT
                        !.pc = IF c.replacement_function # NULL
                               THEN "replacement" ELSE "on_invoke_trampoline",
                        !.trap = will_trap_on_leave,
                        !.dispatch = invoke_listeners,
                        !.enter = IF invoke_listeners
                                  THEN OnEnterPass(c.listener_entries) ELSE <<>>,
                        !.enter_slots = IF invoke_listeners
                                        THEN OnEnterSlots(c.listener_entries, 1)
                                        ELSE <<>>,
                        !.live_enter = ListenersOf(c.listener_entries)],
           counter |-> IF will_trap_on_leave THEN counter ELSE counter - 1,
           stack |-> final, bypass |-> FALSE]

\* The outcomes of running code or reading data of context id: as written,
\* and, once the context's memory was released, also a crash.
Crashes(id) == IF ctx[id].state = "freed" THEN {FALSE, TRUE} ELSE {FALSE}

CallHandlerFrame == <<alive, function_by_address, current_transaction, mutex,
                      selected_thread_id, guard, code, prot, suspended, host,
                      commit, released, last>>

\* Faulty variant: what an on_enter callback wrote stays in the invocation
\* context and is not set on the thread.
begin_invocation_keeps_thread_error(fr, c, bypass, thread_error, w) ==
  LET wrote == IF fr.dispatch /\ fr.enter # <<>> THEN w ELSE NoWrite
      system_error == IF wrote # NoWrite THEN wrote ELSE thread_error
  IN [frame |-> [fr EXCEPT
                   !.system_error = IF fr.trap THEN system_error ELSE @,
                   !.original_system_error =
                      IF c.replacement_function # NULL THEN system_error ELSE @,
                   !.wrote_enter = wrote,
                   !.entered_error = system_error],
      thread_error |-> thread_error]

\* The system error in _gum_function_context_begin_invocation: captured from
\* the thread, stored in the invocation context when there is one, possibly
\* rewritten by an on_enter callback (w), set on the thread again, and saved
\* as original_system_error when a replacement is about to run. fr is the
\* frame the handler leaves, c the context.
begin_invocation_system_error(fr, c, bypass, thread_error, w) ==
  LET captured == thread_error
      wrote == IF fr.dispatch /\ fr.enter # <<>> THEN w ELSE NoWrite
      system_error == IF wrote # NoWrite THEN wrote ELSE captured
  IN IF bypass
     THEN [frame |-> fr, thread_error |-> thread_error]
     ELSE [frame |-> [fr EXCEPT
                        !.system_error = IF fr.trap THEN system_error ELSE @,
                        !.original_system_error =
                           IF c.replacement_function # NULL THEN system_error ELSE @,
                        !.wrote_enter = wrote,
                        !.entered_error = system_error],
           thread_error |-> system_error]

\* The on-enter trampoline calls the entry handler; W holds what the
\* on_enter callbacks may do to the invocation context's system_error.
BeginInvocationWriting(t, W) ==
  /\ At(t, "on_enter_trampoline")
  /\ \E crash \in Crashes(Top(t).c) :
       IF crash
       THEN /\ aborted' = TRUE
            /\ UNCHANGED <<ctx, thread_ctx, call>>
       ELSE \E w \in W :
            LET id == Top(t).c
                r == gum_function_context_begin_invocation(
                        t, Top(t), id, ctx[id], guard[t], thread_ctx[t].stack)
                e == begin_invocation_system_error(
                        r.frame, ctx[id], r.bypass, thread_ctx[t].system_error, w)
                allowed == /\ thread_ctx[t].ignore_level <= 0
                           /\ selected_thread_id \in {0, t}
            IN /\ call' = SetTop(t, [e.frame EXCEPT !.allowed = allowed])
               /\ ctx' = [ctx EXCEPT ![id].trampoline_usage_counter = r.counter]
               /\ thread_ctx' = [thread_ctx EXCEPT
                                   ![t].stack = r.stack,
                                   ![t].system_error = e.thread_error]
               /\ UNCHANGED aborted
  /\ UNCHANGED CallHandlerFrame

\* The same with callbacks that leave the system error alone.
BeginInvocation(t) == BeginInvocationWriting(t, {NoWrite})

\* The on-invoke trampoline runs the relocated prologue and jumps into the
\* original function.
InvokeOriginal(t) ==
  /\ At(t, "on_invoke_trampoline")
  /\ \E crash \in Crashes(Top(t).c) :
       IF crash
       THEN aborted' = TRUE /\ UNCHANGED call
       ELSE call' = SetTop(t, [Top(t) EXCEPT !.pc = "function"]) /\ UNCHANGED aborted
  /\ UNCHANGED <<ctx, thread_ctx>>
  /\ UNCHANGED CallHandlerFrame

\* The replacement calls the original through the pointer replace returned
\* (the context's on-invoke trampoline).
ReplacementCallsOriginal(t) ==
  /\ At(t, "replacement")
  /\ Len(call[t]) < MaxCallDepth
  /\ Top(t).k < MaxThroughCalls
  /\ call' = [call EXCEPT ![t] =
                Append(SetTop(t, [Top(t) EXCEPT !.k = @ + 1])[t],
                       NewFrame(Top(t).f, Top(t).c, "on_invoke_trampoline"))]
  /\ UNCHANGED <<aborted, ctx, thread_ctx>>
  /\ UNCHANGED CallHandlerFrame

\* The replacement calls the function it replaces by its address.
ReplacementCallsFunction(t) ==
  /\ At(t, "replacement")
  /\ Len(call[t]) < MaxCallDepth
  /\ Top(t).k < MaxThroughCalls
  /\ Executable(Top(t).f)
  /\ \E target \in PrologueTargets(Top(t).f) :
       call' = [call EXCEPT ![t] =
                  Append(SetTop(t, [Top(t) EXCEPT !.k = @ + 1])[t],
                         FrameAt(Top(t).f, target))]
  /\ UNCHANGED <<aborted, ctx, thread_ctx>>
  /\ UNCHANGED CallHandlerFrame

\* The function (or the replacement) returns: to the on-leave trampoline when
\* the entry handler redirected the return address, else to its caller.
Return(t) ==
  /\ At(t, "function") \/ At(t, "replacement")
  /\ call' = IF Top(t).trap
             THEN SetTop(t, [Top(t) EXCEPT
                               !.pc = "on_leave_trampoline",
                               !.returned_error = thread_ctx[t].system_error])
             ELSE Pop(t)
  /\ UNCHANGED <<aborted, ctx, thread_ctx>>
  /\ UNCHANGED CallHandlerFrame

\* Faulty variant: the leave handler always exposes the value captured on
\* return, also when the replacement changed the invocation context's value.
end_invocation_ignores_replacement(fr, c, stack, thread_error, w) ==
  LET leave == OnLeavePass(c.listener_entries)
      wrote == IF leave # <<>> THEN w ELSE NoWrite
      final == IF wrote # NoWrite THEN wrote ELSE thread_error
  IN [frame |-> [fr EXCEPT !.pc = "leaving",
                           !.next_hop =
                              gum_invocation_stack_peek_top(stack).caller_ret_addr,
                           !.leave = leave,
                           !.live_leave = ListenersOf(c.listener_entries),
                           !.leave_start_error = thread_error,
                           !.wrote_leave = wrote,
                           !.system_error = final],
      counter |-> c.trampoline_usage_counter - 1,
      stack |-> gum_invocation_stack_pop(stack),
      thread_error |-> final]

\* _gum_function_context_end_invocation: the system error captured from the
\* thread (or the replacement's, when it changed the invocation context's),
\* on_leave of every live entry (w: what the callbacks do to system_error),
\* the system error set on the thread, the invocation stack popped, the usage
\* counter decremented.
gum_function_context_end_invocation(fr, c, stack, thread_error, w) ==
  LET stack_entry == gum_invocation_stack_peek_top(stack)
      adopt == /\ stack_entry.calling_replacement
               /\ fr.system_error # fr.original_system_error
      start == IF adopt THEN fr.system_error ELSE thread_error
      leave == OnLeavePass(c.listener_entries)
      wrote == IF leave # <<>> THEN w ELSE NoWrite
      final == IF wrote # NoWrite THEN wrote ELSE start
  IN [frame |-> [fr EXCEPT !.pc = "leaving",
                           !.next_hop =
                              gum_invocation_stack_peek_top(stack).caller_ret_addr,
                           !.leave = leave,
                           !.live_leave = ListenersOf(c.listener_entries),
                           !.leave_start_error = start,
                           !.wrote_leave = wrote,
                           !.system_error = final],
      counter |-> c.trampoline_usage_counter - 1,
      stack |-> gum_invocation_stack_pop(stack),
      thread_error |-> final]

\* The on-leave trampoline calls the leave handler; W holds what the
\* on_leave callbacks may do to the invocation context's system_error.
EndInvocationWriting(t, W) ==
  /\ At(t, "on_leave_trampoline")
  /\ \E crash \in Crashes(Top(t).c) :
       IF crash
       THEN /\ aborted' = TRUE
            /\ UNCHANGED <<ctx, thread_ctx, call>>
       ELSE \E w \in W :
            LET id == Top(t).c
                r == gum_function_context_end_invocation(
                        Top(t), ctx[id], thread_ctx[t].stack,
                        thread_ctx[t].system_error, w)
            IN /\ call' = SetTop(t, r.frame)
               /\ ctx' = [ctx EXCEPT ![id].trampoline_usage_counter = r.counter]
               /\ thread_ctx' = [thread_ctx EXCEPT
                                   ![t].stack = r.stack,
                                   ![t].system_error = r.thread_error]
               /\ UNCHANGED aborted
  /\ UNCHANGED CallHandlerFrame

\* The same with callbacks that leave the system error alone.
EndInvocation(t) == EndInvocationWriting(t, {NoWrite})

\* The running function, or the running replacement, sets the thread's
\* system error.
SetsThreadError(t, e) ==
  /\ At(t, "function") \/ At(t, "replacement")
  /\ thread_ctx[t].system_error # e
  /\ thread_ctx' = [thread_ctx EXCEPT ![t].system_error = e]
  /\ UNCHANGED <<aborted, ctx, call>>
  /\ UNCHANGED CallHandlerFrame

\* The running replacement stores e in the system_error of its invocation
\* context (gum_interceptor_get_current_invocation).
ReplacementSetsContextError(t, e) ==
  /\ At(t, "replacement")
  /\ Top(t).system_error # e
  /\ call' = SetTop(t, [Top(t) EXCEPT !.system_error = e,
                                      !.replacement_wrote = e])
  /\ UNCHANGED <<aborted, ctx, thread_ctx>>
  /\ UNCHANGED CallHandlerFrame

\* The on-leave trampoline jumps to the caller's return address.
Leave(t) ==
  /\ At(t, "leaving")
  /\ \E crash \in Crashes(Top(t).c) :
       IF crash \/ Top(t).next_hop # CallerReturnAddress(t)
       THEN aborted' = TRUE /\ UNCHANGED call
       ELSE call' = Pop(t) /\ UNCHANGED aborted
  /\ UNCHANGED <<ctx, thread_ctx>>
  /\ UNCHANGED CallHandlerFrame

\* The entry handler up to the point where a listener's on_enter runs: the
\* usage counter is incremented, the guard is set, the entry is pushed, and
\* the thread is inside the callback.
EnterCallbacks(t) ==
  /\ At(t, "on_enter_trampoline")
  /\ ctx[Top(t).c].state = "live"
  /\ LET id == Top(t).c
         r == gum_function_context_begin_invocation(
                 t, Top(t), id, ctx[id], guard[t], thread_ctx[t].stack)
     IN /\ ~ r.bypass
        /\ r.frame.enter # <<>>
        /\ call' = SetTop(t, [r.frame EXCEPT
                                !.pc = "on_enter",
                                !.list_id = ctx[id].list_id,
                                !.listener_entries = ctx[id].listener_entries,
                                !.allowed = /\ thread_ctx[t].ignore_level <= 0
                                            /\ selected_thread_id \in {0, t}])
        /\ ctx' = [ctx EXCEPT ![id].trampoline_usage_counter = @ + 1]
        /\ thread_ctx' = [thread_ctx EXCEPT
                            ![t].stack = gum_invocation_stack_push(
                                            @, id, ctx[id],
                                            IF r.frame.trap
                                            THEN CallerReturnAddress(t)
                                            ELSE ctx[id].function_address)]
        /\ guard' = [guard EXCEPT ![t] = TRUE]
  /\ UNCHANGED <<alive, aborted, function_by_address, current_transaction, mutex,
                 selected_thread_id, code, prot, suspended, host, commit,
                 released, last>>

\* The rest of the entry handler, once the on_enter callbacks have returned:
\* the entry pushed only for on_enter is popped, the guard is cleared, the
\* return address and the next hop are set, and the usage counter is
\* decremented unless the call traps on leave.
EnterCallbacksReturn(t) ==
  /\ At(t, "on_enter")
  /\ LET fr == Top(t)
         id == fr.c
         c == ctx[id]
         stack == thread_ctx[t].stack
     IN /\ call' = SetTop(t, [fr EXCEPT
                       !.pc = IF c.replacement_function # NULL
                              THEN "replacement" ELSE "on_invoke_trampoline",
                       !.list_id = 0,
                       !.listener_entries = <<>>])
        /\ thread_ctx' = [thread_ctx EXCEPT ![t].stack =
               IF ~ fr.trap THEN gum_invocation_stack_pop(stack)
               ELSE IF c.replacement_function # NULL
               THEN [stack EXCEPT ![Len(stack)].calling_replacement = TRUE]
               ELSE stack]
        /\ ctx' = [ctx EXCEPT ![id].trampoline_usage_counter =
                     IF fr.trap THEN @ ELSE @ - 1]
        /\ guard' = [guard EXCEPT ![t] = FALSE]
  /\ UNCHANGED <<alive, aborted, function_by_address, current_transaction, mutex,
                 selected_thread_id, code, prot, suspended, host, commit,
                 released, last>>

\* The leave handler up to the point where a listener's on_leave runs: the
\* guard is set and the thread is inside the callback.
LeaveCallbacks(t) ==
  /\ At(t, "on_leave_trampoline")
  /\ ctx[Top(t).c].state = "live"
  /\ LET id == Top(t).c
         r == gum_function_context_end_invocation(
                 Top(t), ctx[id], thread_ctx[t].stack,
                 thread_ctx[t].system_error, NoWrite)
     IN /\ r.frame.leave # <<>>
        /\ call' = SetTop(t, [r.frame EXCEPT
                                !.pc = "on_leave",
                                !.list_id = ctx[id].list_id,
                                !.listener_entries = ctx[id].listener_entries])
  /\ guard' = [guard EXCEPT ![t] = TRUE]
  /\ UNCHANGED <<alive, aborted, function_by_address, ctx, current_transaction,
                 mutex, selected_thread_id, thread_ctx, code, prot, suspended,
                 host, commit, released, last>>

\* The rest of the leave handler, once the on_leave callbacks have returned:
\* the entry is popped, the guard cleared, the usage counter decremented.
LeaveCallbacksReturn(t) ==
  /\ At(t, "on_leave")
  /\ call' = SetTop(t, [Top(t) EXCEPT !.pc = "leaving",
                                      !.list_id = 0,
                                      !.listener_entries = <<>>])
  /\ thread_ctx' = [thread_ctx EXCEPT ![t].stack = gum_invocation_stack_pop(@)]
  /\ ctx' = [ctx EXCEPT ![Top(t).c].trampoline_usage_counter = @ - 1]
  /\ guard' = [guard EXCEPT ![t] = FALSE]
  /\ UNCHANGED <<alive, aborted, function_by_address, current_transaction, mutex,
                 selected_thread_id, code, prot, suspended, host, commit,
                 released, last>>

\* The callback the thread is in calls function a.
CallbackCallsFunction(t, a) ==
  /\ At(t, "on_enter") \/ At(t, "on_leave")
  /\ Len(call[t]) < MaxNesting
  /\ Executable(a)
  /\ \E target \in PrologueTargets(a) :
       call' = [call EXCEPT ![t] = Append(call[t], FrameAt(a, target))]
  /\ UNCHANGED <<aborted, ctx, thread_ctx>>
  /\ UNCHANGED CallHandlerFrame

\* gum_interceptor_save, called by the code of the thread's top frame, which
\* keeps the GumInvocationState in a local variable (next to its jmp_buf).
Save(t) ==
  /\ At(t, "function") \/ At(t, "replacement")
  /\ Top(t).state = NoState
  /\ call' = SetTop(t, [Top(t) EXCEPT !.state = Len(thread_ctx[t].stack)])
  /\ UNCHANGED <<aborted, ctx, thread_ctx>>
  /\ UNCHANGED CallHandlerFrame

\* Faulty variant: the stack is truncated and the usage counters stay.
restore_keeps_counters(stack, cs, old_depth) ==
  [stack |-> SubSeq(stack, 1, old_depth), ctx |-> cs, wild |-> FALSE]

\* gum_interceptor_restore: nothing when the depth is the saved one; else the
\* usage counter of the context of every entry from old_depth up to the top
\* is decremented and the stack is set to old_depth entries. With a stack
\* shorter than old_depth the loop index runs past the array (wild).
gum_interceptor_restore(stack, cs, old_depth) ==
  LET new_depth == Len(stack)
      Discarded(id) == Cardinality({i \in (old_depth + 1)..new_depth :
                                      stack[i].function_ctx = id})
  IN IF new_depth = old_depth
     THEN [stack |-> stack, ctx |-> cs, wild |-> FALSE]
     ELSE IF new_depth < old_depth
     THEN [stack |-> stack, ctx |-> cs, wild |-> TRUE]
     ELSE [stack |-> SubSeq(stack, 1, old_depth),
           ctx |-> [id \in CtxIds |->
                      [cs[id] EXCEPT !.trampoline_usage_counter = @ - Discarded(id)]],
           wild |-> FALSE]

\* The code the thread is running (a function, a replacement or a listener
\* callback) jumps back into frame i, which saved the invocation state, and
\* that frame calls gum_interceptor_restore: the native frames above i are
\* gone.
Restore(t, i) ==
  /\ \/ At(t, "function") \/ At(t, "replacement")
     \/ At(t, "on_enter") \/ At(t, "on_leave")
  /\ i \in DOMAIN call[t]
  /\ call[t][i].state # NoState
  /\ call[t][i].jumps < MaxRestores
  /\ LET r == gum_interceptor_restore(thread_ctx[t].stack, ctx, call[t][i].state)
     IN /\ aborted' = r.wild
        /\ ctx' = r.ctx
        /\ thread_ctx' = [thread_ctx EXCEPT ![t].stack = r.stack]
        /\ call' = [call EXCEPT ![t] =
                      [SubSeq(@, 1, i) EXCEPT
                         ![i].jumps = @ + 1,
                         ![i].discarded = Len(thread_ctx[t].stack) - call[t][i].state]]
  /\ UNCHANGED CallHandlerFrame

\* The running function calls function a (itself, when a is its own address).
FunctionCallsFunction(t, a) ==
  /\ At(t, "function")
  /\ Len(call[t]) < MaxNesting
  /\ Executable(a)
  /\ \E target \in PrologueTargets(a) :
       call' = [call EXCEPT ![t] = Append(call[t], FrameAt(a, target))]
  /\ UNCHANGED <<aborted, ctx, thread_ctx>>
  /\ UNCHANGED CallHandlerFrame

CallStep(t, A) ==
  \/ \E a \in A : CallFunction(t, a)
  \/ BeginInvocation(t)
  \/ InvokeOriginal(t)
  \/ Return(t)
  \/ EndInvocation(t)
  \/ Leave(t)

ThroughCallStep(t) ==
  \/ ReplacementCallsOriginal(t)
  \/ ReplacementCallsFunction(t)

IgnoreStep(t) ==
  \/ IgnoreCurrentThread(t)
  \/ UnignoreCurrentThread(t)
  \/ IgnoreOtherThreads(t)
  \/ UnignoreOtherThreads(t)

\* ------------------------------------------------------------------------
\* Specification of the public operations alone (no intercepted calls)
\* ------------------------------------------------------------------------
CommitStep(t) ==
  \/ CommitSuspend(t)
  \/ CommitProtect(t)
  \/ CommitStage(t)
  \/ CommitUpdate(t)
  \/ CommitUnprotect(t)
  \/ CommitClearCache(t)
  \/ CommitResume(t)
  \/ CommitMap(t)
  \/ CommitDrain(t)
  \/ CommitNotify(t)
  \/ CommitRelock(t)
  \/ CommitFinish(t)

ReplacementData == {7}
FunctionData == {5}

\* The public operations with their arguments drawn from the given sets.
ApiStep(t, A, L, R) ==
  \/ \E a \in A, l \in L, d \in FunctionData : Attach(t, a, l, d)
  \/ \E l \in L : Detach(t, l)
  \/ \E a \in A, fn \in R, d \in ReplacementData : Replace(t, a, fn, d)
  \/ \E a \in A, fn \in R : ReplaceFast(t, a, fn)
  \/ \E a \in A : Revert(t, a)
  \/ BeginTransaction(t)
  \/ EndTransactionOp(t)

NextApi ==
  \/ ApiStep(1, {AddrF, AddrStub, AddrBad}, Listeners, Replacements)
  \/ CommitStep(1)

SpecApi == Init /\ [][NextApi]_vars

\* ------------------------------------------------------------------------
\* Properties of the public operations
\* ------------------------------------------------------------------------
\* The slots of context c that hold an entry of listener l.
EntriesFor(c, l) ==
  {i \in DOMAIN c.listener_entries : c.listener_entries[i].listener_instance = l}

\* Instrumenting address fa as the given type succeeds: its context has that
\* type, or it is new and the backend provides a trampoline.
BackendAccepts(fa) ==
  IF host = "signed" THEN backend_claim_grafted_trampoline(fa)
  ELSE backend_create_trampoline(fa)

InstrumentationSucceeds(fa, type) ==
  IF function_by_address[fa] # NULL
  THEN ctx[function_by_address[fa]].type = type
  ELSE BackendAccepts(fa)

\* The update tasks pending once the operation has returned control: those of
\* the commit it started, or else those of the current transaction.
UpdatesAfter ==
  IF commit'[1].pc # "idle" /\ commit[1].pc = "idle"
  THEN commit'[1].update ELSE current_transaction'.pending_update_tasks

\* C1: attach on an address whose resolved context already holds a live entry
\* for the listener returns already-attached and leaves that context's
\* entries, the address map and the pending update tasks unchanged; otherwise,
\* when instrumentation succeeds, it returns ok and the context then holds
\* exactly one live entry for the listener.
C1_AttachContract ==
  [][\A a \in AllAddrs, l \in Listeners, d \in FunctionData :
       Attach(1, a, l, d) =>
         LET fa == gum_interceptor_resolve(function_by_address, a)
             id == function_by_address[fa]
         IN IF id # NULL /\ EntriesFor(ctx[id], l) # {}
            THEN /\ last'.result = "already_attached"
                 /\ ctx'[id].listener_entries = ctx[id].listener_entries
                 /\ function_by_address' = function_by_address
                 /\ UpdatesAfter = current_transaction.pending_update_tasks
            ELSE InstrumentationSucceeds(fa, "default") =>
                   /\ last'.result = "ok"
                   /\ function_by_address'[fa] # NULL
                   /\ Cardinality(EntriesFor(ctx'[function_by_address'[fa]], l)) = 1
    ]_vars

C1_Witness ==
  /\ last.result = "already_attached"
  /\ \E id \in CtxIds : Len(ctx[id].listener_entries) = 2

\* C2: attach or replace on an address bound as fast, and replace_fast on an
\* address bound as default, return wrong-type and leave the context, its
\* listeners and its replacement unchanged; the type of a context does not
\* change while the context is in the address map.
BoundAs(a, type) ==
  LET fa == gum_interceptor_resolve(function_by_address, a)
  IN /\ function_by_address[fa] # NULL
     /\ ctx[function_by_address[fa]].type = type

RejectedAsWrongType ==
  /\ last'.result = "wrong_type"
  /\ ctx' = ctx
  /\ function_by_address' = function_by_address

C2_KindsNeverMixed ==
  [][/\ \A a \in AllAddrs, l \in Listeners, d \in FunctionData :
          Attach(1, a, l, d) /\ BoundAs(a, "fast") => RejectedAsWrongType
     /\ \A a \in AllAddrs, fn \in Replacements, d \in ReplacementData :
          Replace(1, a, fn, d) /\ BoundAs(a, "fast") => RejectedAsWrongType
     /\ \A a \in AllAddrs, fn \in Replacements :
          ReplaceFast(1, a, fn) /\ BoundAs(a, "default") => RejectedAsWrongType
     /\ \A a \in AllAddrs :
          function_by_address[a] # NULL
            /\ function_by_address'[a] = function_by_address[a]
          => ctx'[function_by_address[a]].type = ctx[function_by_address[a]].type
    ]_vars

C2_Witness ==
  /\ last.result = "wrong_type"
  /\ \E a \in AllAddrs : function_by_address[a] # NULL
                           /\ ctx[function_by_address[a]].type = "fast"

\* C3: replace (and replace_fast) on an address whose context already has a
\* replacement returns already-replaced, leaves the stored replacement
\* function and data as they are and does not write the out parameter;
\* otherwise, when instrumentation succeeds, it returns ok, stores the
\* replacement and its data and writes the context's on-invoke trampoline to
\* the out parameter.
ReplaceContract(a, type, fn, d) ==
  LET fa == gum_interceptor_resolve(function_by_address, a)
      id == function_by_address[fa]
  IN IF id # NULL /\ ctx[id].type = type /\ ctx[id].replacement_function # NULL
     THEN /\ last'.result = "already_replaced"
          /\ ctx'[id].replacement_function = ctx[id].replacement_function
          /\ ctx'[id].replacement_data = ctx[id].replacement_data
          /\ ~ last'.out.written
     ELSE InstrumentationSucceeds(fa, type) =>
            /\ last'.result = "ok"
            /\ function_by_address'[fa] # NULL
            /\ ctx'[function_by_address'[fa]].replacement_function = fn
            /\ ctx'[function_by_address'[fa]].replacement_data = d
            /\ last'.out = Written(function_by_address'[fa])

InstrumentationRefused(a) ==
  LET fa == gum_interceptor_resolve(function_by_address, a)
  IN /\ function_by_address[fa] = NULL
     /\ ~ BackendAccepts(fa)

ReportedAsRefused ==
  /\ last'.result = IF host = "signed" THEN "policy_violation" ELSE "wrong_signature"
  /\ ~ last'.out.written
  /\ function_by_address' = function_by_address
  /\ ctx' = ctx
  /\ UpdatesAfter = current_transaction.pending_update_tasks

C4_InstrumentFailure ==
  [][/\ \A a \in AllAddrs, l \in Listeners, d \in FunctionData :
          Attach(1, a, l, d) /\ InstrumentationRefused(a) => ReportedAsRefused
     /\ \A a \in AllAddrs, fn \in Replacements, d \in ReplacementData :
          Replace(1, a, fn, d) /\ InstrumentationRefused(a) => ReportedAsRefused
     /\ \A a \in AllAddrs, fn \in Replacements :
          ReplaceFast(1, a, fn) /\ InstrumentationRefused(a) => ReportedAsRefused
    ]_vars

C4_Witness ==
  /\ last.result = "policy_violation"
  /\ current_transaction.level > 0

\* C6: once every transaction has committed, a function that is no longer in
\* the address map (its only listener was detached, whether its attach was
\* committed before or in the same transaction) has its original prologue on
\* every page and no activated context.
Quiescent ==
  /\ \A t \in Threads : commit[t].pc = "idle"
  /\ current_transaction.level = 0
  /\ TransactionHasNoChanges(current_transaction)

ListenerStep(t, A, L) ==
  \/ \E a \in A, l \in L, d \in FunctionData : Attach(t, a, l, d)
  \/ \E l \in L : Detach(t, l)
  \/ BeginTransaction(t)
  \/ EndTransactionOp(t)

Next ==
  \/ ListenerStep(1, FuncAddrs, {1})
  \/ CommitStep(1)
  \/ CallStep(2, FuncAddrs)
  \/ IgnoreCurrentThread(2)
  \/ UnignoreCurrentThread(2)

Spec == Init /\ [][Next]_vars

\* ------------------------------------------------------------------------
\* Properties of listener dispatch
\* ------------------------------------------------------------------------
\* How many times listener l appears in a sequence of callbacks.
Count(l, callbacks) == Cardinality({i \in DOMAIN callbacks : callbacks[i] = l})

\* No context of the address map holds an entry of listener l.
Detached(l) ==
  \A a \in AllAddrs :
    function_by_address[a] # NULL => EntriesFor(ctx[function_by_address[a]], l) = {}

\* detach leaves no entry of the listener in the address map, and a handler
\* that runs while the listener is detached invokes neither of its callbacks.
DetachSilences ==
  /\ \A l \in Listeners : Detach(1, l) => Detached(l)'
  /\ \A t \in Threads, l \in Listeners :
       Detached(l) /\ BeginInvocation(t) =>
         Count(l, call'[t][Len(call'[t])].enter) = 0
  /\ \A t \in Threads, l \in Listeners :
       Detached(l) /\ EndInvocation(t) =>
         Count(l, call'[t][Len(call'[t])].leave) = 0

\* Of a call that went through a context's trampoline while listener l had a
\* live entry there: on_enter of l ran once, and on_leave ran once by the
\* time the call leaves if l still had its entry when the function returned.
FiredOnce(fr, l) ==
  /\ Count(l, fr.enter) <= 1
  /\ Count(l, fr.leave) <= 1
  /\ fr.pc # "on_enter_trampoline" /\ l \in fr.live_enter /\ HasOnEnter(l)
       => Count(l, fr.enter) = 1
  /\ fr.pc # "on_enter_trampoline" /\ l \in fr.live_enter /\ HasOnLeave(l)
       => fr.trap
  /\ fr.pc = "leaving" /\ l \in fr.live_enter /\ l \in fr.live_leave /\ HasOnLeave(l)
       => Count(l, fr.leave) = 1

\* The same for the calls of every thread, whatever the thread's ignore level
\* and the selected thread.
EveryCallFiresOnce ==
  \A t \in Threads, l \in Listeners :
    \A i \in DOMAIN call[t] :
      call[t][i].c # NULL => FiredOnce(call[t][i], l)

\* The same for the calls whose entry handler dispatched to listeners.
EveryDispatchedCallFiresOnce ==
  \A t \in Threads, l \in Listeners :
    \A i \in DOMAIN call[t] :
      call[t][i].c # NULL /\ call[t][i].dispatch => FiredOnce(call[t][i], l)

\* C5 as stated: after detach no context of the map holds the listener and
\* later calls invoke neither of its callbacks; while the listener is
\* attached, every call to one of its functions invokes its on_enter exactly
\* once and its on_leave exactly once.
C5_EveryCall ==
  [][DetachSilences /\ EveryCallFiresOnce']_vars

\* C5 as amended: the same, for the calls made by a thread that is neither in
\* ignore mode nor excluded by the selected thread when it enters.
C5_DispatchedCalls ==
  [][DetachSilences /\ EveryDispatchedCallFiresOnce']_vars

C5_Witness ==
  /\ \E i \in DOMAIN call[2] :
       /\ call[2][i].pc = "leaving"
       /\ call[2][i].f = AddrG
       /\ call[2][i].enter = <<1>>
       /\ call[2][i].leave = <<1>>
  /\ function_by_address[AddrF] # NULL
  /\ function_by_address[AddrG] # NULL
  /\ EntriesFor(ctx[function_by_address[AddrF]], 1) # {}

\* ------------------------------------------------------------------------
\* Properties of batched attaches
\* ------------------------------------------------------------------------
\* A call entering function a now may invoke listener l / is bound to.
DispatchesTo(a, l) ==
  \E target \in PrologueTargets(a) :
    target # NULL /\ EntriesFor(ctx[target], l) # {}

AlwaysDispatchesTo(a, l) ==
  \A target \in PrologueTargets(a) :
    target # NULL /\ EntriesFor(ctx[target], l) # {}

TasksOf(batch) ==
  UNION {{batch[p][i] : i \in DOMAIN batch[p]} : p \in DOMAIN batch}

\* Listener l is attached to both functions and the activations of both
\* contexts are part of the one batch.
BothActivatedBy(batch, l) ==
  LET f == function_by_address[AddrF]
      g == function_by_address[AddrG]
  IN /\ f # NULL /\ g # NULL
     /\ EntriesFor(ctx[f], l) # {}
     /\ EntriesFor(ctx[g], l) # {}
     /\ [ctx |-> f, func |-> "activate"] \in TasksOf(batch)
     /\ [ctx |-> g, func |-> "activate"] \in TasksOf(batch)

\* Some thread other than a committing one can call both functions.
SomeThreadCanCall ==
  /\ \E t \in Threads : AtTopLevel(t) /\ mutex.owner # t
  /\ \A a \in FuncAddrs : Executable(a)

SameDispatch(l) ==
  /\ DispatchesTo(AddrF, l) => AlwaysDispatchesTo(AddrG, l)
  /\ DispatchesTo(AddrG, l) => AlwaysDispatchesTo(AddrF, l)

\* C9 as stated: when a listener is attached to F and to G inside one
\* begin_transaction/end_transaction pair, there is no reachable state in
\* which calls to one of them invoke the listener and calls to the other do
\* not.
C9_NeverOneWithoutTheOther ==
  \A l \in Listeners :
    /\ BothActivatedBy(current_transaction.pending_update_tasks, l)
         /\ SomeThreadCanCall => SameDispatch(l)
    /\ \A t \in Threads :
         BothActivatedBy(commit[t].update, l) /\ SomeThreadCanCall
           => SameDispatch(l)

C9_Witness ==
  /\ BothActivatedBy(commit[1].update, 1)
  /\ commit[1].pc = "update"
  /\ DispatchesTo(AddrF, 1)
  /\ ~ DispatchesTo(AddrG, 1)
  /\ AtTopLevel(2)

\* While the transaction is open neither function dispatches to the
\* listener, and once the commit has run its update tasks both do.
BatchInvisibleUntilCommit ==
  \A l \in Listeners :
    /\ BothActivatedBy(current_transaction.pending_update_tasks, l)
         => ~ DispatchesTo(AddrF, l) /\ ~ DispatchesTo(AddrG, l)
    /\ \A t \in Threads :
         BothActivatedBy(commit[t].update, l)
           /\ commit[t].pc \in {"drain", "notify", "relock"}
         => AlwaysDispatchesTo(AddrF, l) /\ AlwaysDispatchesTo(AddrG, l)

\* ------------------------------------------------------------------------
\* Specification of teardown: a listener on one function, calls to it, and
\* the interceptor's dispose and finalize
\* ------------------------------------------------------------------------
NextTeardown ==
  \/ ListenerStep(1, {AddrF}, {1})
  \/ CommitStep(1)
  \/ CallStep(2, {AddrF})
  \/ Dispose(1)
  \/ Finalize(1)

SpecTeardown == Init /\ [][NextTeardown]_vars

\* ------------------------------------------------------------------------
\* Specification of replacement: one function is replaced and listened to
\* while another thread calls it and the replacement calls the original
\* ------------------------------------------------------------------------
NextReplace ==
  \/ \E fn \in {1}, d \in ReplacementData : Replace(1, AddrF, fn, d)
  \/ Revert(1, AddrF)
  \/ \E d \in FunctionData : Attach(1, AddrF, 1, d)
  \/ Detach(1, 1)
  \/ CommitStep(1)
  \/ CallStep(2, {AddrF})
  \/ ThroughCallStep(2)
  \/ IgnoreCurrentThread(2)
  \/ UnignoreCurrentThread(2)

SpecReplace == Init /\ [][NextReplace]_vars

\* ------------------------------------------------------------------------
\* Properties of reclamation
\* ------------------------------------------------------------------------
\* C7: whenever a function context's trampoline and memory are released, by
\* the destroy tasks of a commit or by the leftover destroy tasks run at
\* finalize, its trampoline_usage_counter is 0 at that moment.
C7_CounterZeroAtRelease ==
  \A r \in released : r.counter = 0

\* The same for the releases of one path only.
CounterZeroAtReleaseBy(path) ==
  \A r \in released : r.path = path => r.counter = 0

\* The frame's thread executes code of its context's trampoline: the on-enter
\* part up to and including the entry handler, the on-invoke part with the
\* relocated prologue, the on-leave part around the leave handler.
InsideTrampoline(fr) ==
  /\ fr.c # NULL
  /\ fr.pc \in {"on_enter_trampoline", "on_invoke_trampoline",
                "on_leave_trampoline", "leaving"}

\* The frame's return address was redirected to its context's on-leave
\* trampoline and the function has not returned yet.
ReturnsThroughTrampoline(fr) ==
  /\ fr.c # NULL
  /\ fr.trap
  /\ fr.pc \in {"function", "replacement"}

\* C8: no context is released while a thread executes within its trampoline
\* or has a pending return through its on-leave trampoline, whatever the
\* interleaving of the committing thread with the calling threads.
C8_NeverReleasedWhileInside ==
  \A t \in Threads :
    \A i \in DOMAIN call[t] :
      InsideTrampoline(call[t][i]) \/ ReturnsThroughTrampoline(call[t][i])
        => ctx[call[t][i].c].state # "freed"

\* ------------------------------------------------------------------------
\* Properties of replacements calling the original
\* ------------------------------------------------------------------------
\* Thread t is neither in ignore mode nor excluded by the selected thread.
NotSuppressed(t) ==
  /\ thread_ctx[t].ignore_level <= 0
  /\ selected_thread_id = 0 \/ selected_thread_id = t

\* Frame i of thread t is a call of the original made by the replacement
\* that runs in frame i - 1.
IsThroughCall(t, i) ==
  /\ i \in 2..Len(call[t])
  /\ call[t][i - 1].pc = "replacement"
  /\ call[t][i - 1].f = call[t][i].f

\* C10 as stated: a through-call that has reached the original function has
\* invoked on_enter of every listener attached to F exactly once, and returns
\* through the leave handler when one of them has on_leave.
C10_ThroughCallsFire ==
  \A t \in Threads :
    \A i \in DOMAIN call[t] :
      IsThroughCall(t, i) /\ call[t][i].pc = "function" /\ NotSuppressed(t)
      => \A l \in call[t][i - 1].live_enter :
           EntriesFor(ctx[call[t][i - 1].c], l) # {}
           => /\ HasOnEnter(l) => Count(l, call[t][i].enter) = 1
              /\ HasOnLeave(l) => call[t][i].trap

\* C10 as amended: a through-call, by the returned pointer or by F's address,
\* invokes no listener callback, pushes no invocation and is not routed
\* through the leave handler; the listeners' one pass belongs to the
\* enclosing call of F, however many through-calls the replacement makes.
C10_ThroughCallsAreSilent ==
  \A t \in Threads :
    /\ \A i \in DOMAIN call[t] :
         IsThroughCall(t, i)
         => /\ call[t][i].enter = <<>>
            /\ call[t][i].leave = <<>>
            /\ ~ call[t][i].trap
            /\ call[t][i].pc # "replacement"
            /\ Len(thread_ctx[t].stack) = i - 1
    /\ \A i \in DOMAIN call[t] :
         call[t][i].k > 0 /\ call[t][i].dispatch
         => \A l \in call[t][i].live_enter :
              HasOnEnter(l) => Count(l, call[t][i].enter) = 1

C10_Witness ==
  /\ IsThroughCall(2, 2)
  /\ call[2][2].pc = "function"
  /\ call[2][1].k = MaxThroughCalls
  /\ call[2][1].enter = <<1>>
  /\ NotSuppressed(2)
  /\ EntriesFor(ctx[call[2][1].c], 1) # {}
  /\ PrologueTargets(AddrF) = {call[2][1].c}

\* ------------------------------------------------------------------------
\* Specification of the system error: a listener and a replacement on one
\* function; callbacks, function and replacement write the system error
\* ------------------------------------------------------------------------
ErrorWrites == SystemErrors \cup {NoWrite}

NextError ==
  \/ \E d \in FunctionData : Attach(1, AddrF, 1, d)
  \/ \E d \in ReplacementData : Replace(1, AddrF, 1, d)
  \/ CommitStep(1)
  \/ CallFunction(2, AddrF)
  \/ BeginInvocationWriting(2, ErrorWrites)
  \/ InvokeOriginal(2)
  \/ \E e \in SystemErrors : SetsThreadError(2, e)
  \/ \E e \in SystemErrors : ReplacementSetsContextError(2, e)
  \/ Return(2)
  \/ EndInvocationWriting(2, ErrorWrites)
  \/ Leave(2)

SpecError == Init /\ [][NextError]_vars

\* ------------------------------------------------------------------------
\* Properties of the system error
\* ------------------------------------------------------------------------
\* The leave handler of thread t's top frame has just finished.
LeaveHandlerDone(t) ==
  /\ call[t] # <<>>
  /\ Top(t).pc = "leaving"

\* The replacement of the frame changed the invocation context's system_error
\* from the value it had when the replacement started.
ReplacementChanged(fr) ==
  /\ fr.replacement_wrote # NoWrite
  /\ fr.replacement_wrote # fr.entered_error

\* C11 as stated: when the on_leave callbacks of a trapped call start,
\* system_error holds what on_enter wrote, whatever the function did.
C11_EnterValueAtLeave ==
  \A t \in Threads :
    LeaveHandlerDone(t) /\ Top(t).wrote_enter # NoWrite
      => Top(t).leave_start_error = Top(t).wrote_enter

\* The entry handler of thread t has just run its on_enter callbacks and one
\* of them wrote system_error.
EnterWrote(t) ==
  /\ call[t] # <<>>
  /\ Top(t).pc = "on_enter_trampoline"
  /\ Len(call'[t]) = Len(call[t])
  /\ call'[t][Len(call'[t])].wrote_enter # NoWrite

\* C11 as amended: what on_enter wrote is the thread's system error when the
\* function (or the replacement) starts; when the on_leave callbacks start,
\* system_error holds the thread's system error at the function's return, or
\* the replacement's value when the replacement changed the invocation
\* context's system_error.
C11_EnterValueReachesFunction ==
  [][/\ \A t \in Threads :
          EnterWrote(t)
            => thread_ctx'[t].system_error = call'[t][Len(call'[t])].wrote_enter
     /\ \A t \in Threads :
          LeaveHandlerDone(t)
            => Top(t).leave_start_error =
                 IF ReplacementChanged(Top(t))
                 THEN Top(t).replacement_wrote ELSE Top(t).returned_error]_vars

C11_Witness ==
  /\ LeaveHandlerDone(2)
  /\ Top(2).wrote_enter = 1
  /\ Top(2).returned_error = 2
  /\ Top(2).leave_start_error = 2
  /\ Top(2).leave # <<>>

\* C12: when the leave handler finishes, the thread's system error is the
\* invocation context's system_error after the last on_leave callback; when
\* no on_leave callback wrote it, that is the value captured on return from
\* the function, or the replacement's value when the replacement changed the
\* invocation context's system_error from the value saved at entry.
C12_CallerSeesFinalError ==
  \A t \in Threads :
    LeaveHandlerDone(t)
    => /\ thread_ctx[t].system_error = Top(t).system_error
       /\ Top(t).wrote_leave # NoWrite
            => thread_ctx[t].system_error = Top(t).wrote_leave
       /\ Top(t).wrote_leave = NoWrite
            => thread_ctx[t].system_error =
                 IF ReplacementChanged(Top(t))
                 THEN Top(t).replacement_wrote ELSE Top(t).returned_error

C12_Witness ==
  /\ LeaveHandlerDone(2)
  /\ Top(2).wrote_leave = NoWrite
  /\ Top(2).entered_error = 0
  /\ Top(2).replacement_wrote = 2
  /\ Top(2).returned_error = 1
  /\ thread_ctx[2].system_error = 2

\* ------------------------------------------------------------------------
\* Properties of ignoring threads
\* ------------------------------------------------------------------------
\* The entry handler of the frame has run (allowed: the thread was neither in
\* ignore mode nor excluded by the selected thread when it did).
Entered(fr) ==
  /\ fr.c # NULL
  /\ fr.pc # "on_enter_trampoline"

\* C13: a call's listener callbacks (on_enter and on_leave) are invoked
\* exactly when the thread passed both filters at entry, and the replacement
\* runs regardless; no on_leave runs for a call whose on_enter callbacks were
\* suppressed.
C13_FiltersDecideCallbacks ==
  \A t \in Threads :
    call[t] # <<>> /\ Entered(call[t][1])
    => LET fr == call[t][1]
       IN /\ ~ fr.allowed => fr.enter = <<>> /\ fr.leave = <<>>
          /\ fr.allowed
               => \A l \in fr.live_enter : HasOnEnter(l) => Count(l, fr.enter) = 1
          /\ fr.allowed /\ fr.pc = "leaving"
               => \A l \in fr.live_leave : HasOnLeave(l) => Count(l, fr.leave) = 1

\* ------------------------------------------------------------------------
\* Specification of flush: a listener attached to and detached from one
\* function, flushes, and calls of the function by another thread
\* ------------------------------------------------------------------------
NextFlush ==
  \/ ListenerStep(1, {AddrF}, {1})
  \/ Flush(1)
  \/ CommitStep(1)
  \/ CallStep(2, {AddrF})

SpecFlush == Init /\ [][NextFlush]_vars

\* ------------------------------------------------------------------------
\* Properties of flush and of deferred reclamation
\* ------------------------------------------------------------------------
\* What flush is to return given the destroy queue it leaves.
FlushVerdict(tx) == IF tx.pending_destroy_tasks = <<>> THEN "true" ELSE "false"

\* Thread t is in the commit that a flush started.
FlushCommits(t) == commit[t].pc # "idle" /\ commit[t].op = "flush"

\* C14: flush at depth zero runs one begin/end cycle (at most one commit) and
\* returns TRUE exactly when the current transaction holds no destroy task
\* afterwards; flush at depth > 0 returns FALSE and changes neither the
\* depth, the pending tasks nor any context.
C14_FlushContract ==
  [][\A t \in Threads :
       /\ Flush(t) /\ current_transaction.level > 0
            => /\ last'.result = "false"
               /\ UNCHANGED <<current_transaction, ctx, function_by_address,
                              code, commit, released>>
       /\ Flush(t) /\ current_transaction.level = 0
            => /\ current_transaction'.level = 0
               /\ commit'[t].pc = "idle"
                    => /\ last'.result = FlushVerdict(current_transaction')
                       /\ UNCHANGED <<ctx, code, released>>
               /\ commit'[t].pc # "idle"
                    => FlushCommits(t)' /\ last'.result = "pending"
       /\ FlushCommits(t)
            => IF commit'[t].pc = "idle"
               THEN /\ last'.result = FlushVerdict(current_transaction')
                    /\ current_transaction'.level = 0
               ELSE FlushCommits(t)' /\ last'.result = "pending"]_vars

C14_Witness ==
  /\ commit[1].pc = "idle"
  /\ current_transaction.level = 0
  /\ current_transaction.pending_destroy_tasks # <<>>
  /\ last.result = "false"

\* A frame of a call that entered its context while a listener was attached
\* to it: after the detach that destroyed the context, a call the detach
\* found between entry and leave.
EnteredBeforeDetach(fr) ==
  /\ fr.c # NULL
  /\ fr.live_enter # {}
  /\ ctx[fr.c].destroyed

\* C15: a context whose last user detach removed while another thread was
\* inside a call of its function stays allocated as long as that thread has
\* not left the call, and the first flush at depth zero issued after the
\* thread left with the usage counter at 0 releases it and returns TRUE.
C15_RetainedThenFlushed ==
  [][/\ \A t \in Threads : \A i \in DOMAIN call[t] :
          EnteredBeforeDetach(call[t][i]) => ctx[call[t][i].c].state # "freed"
     /\ \A t \in Threads :
          FlushCommits(t) /\ commit[t].quiet /\ commit'[t].pc = "idle"
            => /\ last'.result = "true"
               /\ \A id \in CtxIds : ctx[id].destroyed => ctx'[id].state = "freed"]_vars

\* ------------------------------------------------------------------------
\* Properties of the transaction depth
\* ------------------------------------------------------------------------
\* This step applies an update task or runs a destroy task.
AppliesTask ==
  \/ code' # code
  \/ released' # released
  \/ \E id \in CtxIds : ctx'[id].activated # ctx[id].activated
  \/ \E t \in Threads : commit[t].pc = "notify" /\ commit'[t].pc # "notify"

\* This step starts the commit of thread t.
StartsCommit(t) == commit[t].pc = "idle" /\ commit'[t].pc # "idle"

\* The current transaction holds a task.
HoldsTasks(tx) ==
  \/ tx.pending_destroy_tasks # <<>>
  \/ DOMAIN tx.pending_update_tasks # {}

\* C16: no update task is applied and no destroy task is run while the
\* transaction depth is above zero; the commit starts exactly at the end that
\* brings the depth to zero with is_dirty set, and an end that brings it to
\* zero with is_dirty clear applies nothing.
C16_CommitAtDepthZero ==
  [][/\ AppliesTask => current_transaction.level = 0
     /\ current_transaction'.level > 0
          => ~ AppliesTask /\ \A t \in Threads : commit'[t] = commit[t]
     /\ \A t \in Threads :
          /\ StartsCommit(t)
               => /\ current_transaction.level =
                       IF commit'[t].op = "end_transaction" THEN 1 ELSE 0
                  /\ current_transaction' = EmptyTransaction
                  /\ HoldsTasks([pending_destroy_tasks |-> commit'[t].destroy,
                                 pending_update_tasks |-> commit'[t].update])
          /\ EndTransactionOp(t) /\ current_transaction.level = 1
               => IF current_transaction.is_dirty /\ HoldsTasks(current_transaction)
                  THEN /\ StartsCommit(t)
                       /\ commit'[t].update = current_transaction.pending_update_tasks
                       /\ commit'[t].destroy = current_transaction.pending_destroy_tasks
                  ELSE /\ ~ StartsCommit(t)
                       /\ ~ AppliesTask
                       /\ ~ HoldsTasks(current_transaction')]_vars

C16_Witness ==
  /\ commit[1].op = "end_transaction"
  /\ commit[1].pc = "drain"
  /\ commit[1].destroy # <<>>
  /\ \E id \in CtxIds : ctx[id].activated
  /\ current_transaction.level = 0

\* ------------------------------------------------------------------------
\* Properties of the order of updates
\* ------------------------------------------------------------------------
\* The pages of the sequence are in ascending address order.
Ascending(addresses) ==
  \A i, j \in DOMAIN addresses : i < j => addresses[i] < addresses[j]

\* C17: within one commit, on every host, the update tasks are executed page
\* by page in ascending page-address order, and the tasks of one page in the
\* order in which they were scheduled.
C17_AscendingPageOrder ==
  [][\A t \in Threads :
       /\ commit'[t].pc # "idle" => Ascending(commit'[t].addresses)
       /\ CommitUpdate(t) /\ commit'[t].pc = "update"
            => \/ commit'[t].i > commit[t].i
               \/ commit'[t].i = commit[t].i /\ commit'[t].j = commit[t].j + 1]_vars

\* ------------------------------------------------------------------------
\* Properties of the commit on a host without RWX and without code segments
\* ------------------------------------------------------------------------
\* The set of the elements of a sequence.
Range(seq) == {seq[k] : k \in DOMAIN seq}

\* Thread t commits on a host that has neither RWX pages nor code segments.
SuspendingCommit(t) ==
  /\ host = "suspend"
  /\ commit[t].pc # "idle"

\* The pages the update task at the commit's position writes to.
PagesWritten(t) ==
  LET cm == commit[t]
      id == cm.update[cm.addresses[cm.i]][cm.j].ctx
  IN PagesOf(ctx[id].function_address)

\* C18: on a host without RWX and without code segments a commit has one
\* suspend round and one resume round; the committing thread is never
\* suspended, every suspended thread is resumed once before the commit
\* returns, every target page goes from RX to RW and back to RX, every update
\* task runs while the pages it writes are RW, and every target page is RX
\* when the commit returns.
C18_SuspendCommit ==
  [][\A t \in Threads :
       /\ SuspendingCommit(t)'
            => /\ t \notin suspended'
               /\ commit'[t].pc = "suspend" => commit[t].pc \in {"idle", "suspend"}
               /\ commit'[t].pc = "resume" => commit[t].pc \in {"clear", "resume"}
               /\ commit'[t].pc \in {"protect", "update", "unprotect", "clear", "resume"}
                    => /\ suspended' = Range(commit'[t].suspended_threads)
                       /\ Cardinality(suspended') = Len(commit'[t].suspended_threads)
               /\ commit'[t].pc \in {"update", "unprotect"}
                    => \A p \in Range(commit'[t].addresses) : prot'[p] = "rw"
               /\ commit'[t].pc \in {"suspend", "protect", "clear", "resume", "drain",
                                     "notify", "relock"}
                    => \A p \in Pages : prot'[p] = "rx"
               /\ commit'[t].pc \in {"drain", "notify", "relock"}
                    => suspended' = {}
       /\ SuspendingCommit(t) /\ CommitSuspend(t)
            => suspended = {} /\ \A p \in Pages : prot[p] = "rx"
       /\ SuspendingCommit(t) /\ CommitUpdate(t)
            => \A p \in PagesWritten(t) : prot[p] = "rw"
       /\ SuspendingCommit(t) /\ CommitResume(t)
            => suspended' = {}
       /\ SuspendingCommit(t) /\ CommitFinish(t)
            => suspended' = {} /\ \A p \in Pages : prot'[p] = "rx"]_vars

C18_Witness ==
  /\ SuspendingCommit(1)
  /\ commit[1].pc = "resume"
  /\ suspended = {2}
  /\ Len(commit[1].addresses) = 3
  /\ \A id \in {1, 2} : ctx[id].activated

\* ------------------------------------------------------------------------
\* Properties of revert
\* ------------------------------------------------------------------------
\* The context holds a live listener entry.
HasLiveEntry(c) == \E l \in Listeners : EntriesFor(c, l) # {}

\* What a revert step on address a does.
RevertContract(a) ==
  LET fa == gum_interceptor_resolve(function_by_address, a)
      id == function_by_address[fa]
  IN /\ \A b \in AllAddrs \ {fa} : function_by_address'[b] = function_by_address[b]
     /\ \A other \in CtxIds \ {id} : ctx'[other] = ctx[other]
     /\ IF id = NULL
        THEN function_by_address'[fa] = NULL
        ELSE /\ ctx'[id].replacement_function = NULL
             /\ ctx'[id].replacement_data = NULL
             /\ ctx'[id].listener_entries = ctx[id].listener_entries
             /\ function_by_address'[fa] =
                  IF HasLiveEntry(ctx[id]) THEN id ELSE NULL
             /\ ctx'[id].destroyed = ~ HasLiveEntry(ctx[id])

\* Nothing at the resolved address of a stands in the way of replace: no
\* context, or a context of the default kind without a replacement.
Replaceable(a) ==
  LET fa == gum_interceptor_resolve(function_by_address, a)
      id == function_by_address[fa]
  IN id # NULL => ctx[id].replacement_function = NULL /\ ctx[id].type = "default"

\* C19: revert clears the replacement function and data of the context at
\* the resolved address and removes the context from the address map exactly
\* when it has no live listener entry; on an address without a context it
\* changes no context and no map entry; after revert, replace on the same
\* address succeeds again.
C19_RevertContract ==
  [][/\ \A a \in AllAddrs :
          Revert(1, a) => RevertContract(a) /\ Replaceable(a)'
     /\ \A a \in AllAddrs, fn \in Replacements, d \in ReplacementData :
          Replace(1, a, fn, d) /\ Replaceable(a)
            /\ InstrumentationSucceeds(gum_interceptor_resolve(function_by_address, a),
                                       "default")
          => /\ last'.result = "ok"
             /\ ctx'[function_by_address'[
                   gum_interceptor_resolve(function_by_address, a)]
                   ].replacement_function = fn]_vars

C19_Witness ==
  /\ commit[1].op = "revert"
  /\ commit[1].pc = "drain"
  /\ \E n \in DOMAIN commit[1].destroy : commit[1].destroy[n].notify = "perform_destroy"
  /\ function_by_address[AddrF] = NULL
  /\ \E id \in CtxIds : ctx[id].destroyed /\ ~ ctx[id].activated

\* ------------------------------------------------------------------------
\* Depth of the invocation stack
\* ------------------------------------------------------------------------
\* One thread attaches and detaches a listener on F while another calls F,
\* which calls itself.
NextDepth ==
  \/ ListenerStep(1, {AddrF}, {1})
  \/ CommitStep(1)
  \/ CallStep(2, {AddrF})
  \/ FunctionCallsFunction(2, AddrF)

SpecDepth == Init /\ [][NextDepth]_vars

\* C20: the invocation stack of a thread never holds more entries than the
\* compile-time maximum call depth (an entry that would push beyond it aborts
\* instead of pushing).
C20_DepthBounded ==
  \A t \in Threads : Len(thread_ctx[t].stack) <= GUM_MAX_CALL_DEPTH

\* ------------------------------------------------------------------------
\* Selecting one thread
\* ------------------------------------------------------------------------
\* Both threads select themselves and clear the selection again, while one
\* attaches a listener on F and the other calls F.
NextSelect ==
  \/ \E t \in Threads : IgnoreOtherThreads(t)
  \/ \E t \in Threads : UnignoreOtherThreads(t)
  \/ \E d \in FunctionData : Attach(1, AddrF, 1, d)
  \/ CommitStep(1)
  \/ CallStep(2, {AddrF})

SpecSelect == Init /\ [][NextSelect]_vars

\* C21: whenever a thread that called ignore_other_threads calls
\* unignore_other_threads, selected_thread_id equals that thread's id at that
\* moment (the assertion holds) and is 0 afterwards.
C21_OwnerClearsSelection ==
  [][\A t \in Threads :
       UnignoreOtherThreads(t) =>
         selected_thread_id = t /\ selected_thread_id' = 0 /\ ~ aborted']_vars

\* ------------------------------------------------------------------------
\* One transaction shared by the threads
\* ------------------------------------------------------------------------
\* Thread 1 opens and closes explicit transactions, thread 2 attaches
\* listeners without ever opening one.
NextShared ==
  \/ BeginTransaction(1)
  \/ EndTransactionOp(1)
  \/ \E a \in FuncAddrs, l \in Listeners, d \in FunctionData : Attach(2, a, l, d)
  \/ \E t \in Threads : CommitStep(t)

SpecShared == Init /\ [][NextShared]_vars

\* The activation of the context that this attach step created for address a.
NewActivation(a) ==
  [ctx |-> function_by_address'[gum_interceptor_resolve(function_by_address, a)],
   func |-> "activate"]

\* This step is a successful attach of thread 2 that instruments address a.
AttachInstruments(a) ==
  /\ \E l \in Listeners, d \in FunctionData : Attach(2, a, l, d)
  /\ last'.result = "ok"
  /\ function_by_address[gum_interceptor_resolve(function_by_address, a)] = NULL

\* C22 (as stated): the changes of an attach on a thread that has no explicit
\* transaction open are committed by that attach, also when another thread
\* has an explicit begin_transaction open.
C22_AttachCommitsItsChanges ==
  [][\A a \in FuncAddrs :
       AttachInstruments(a)
         => StartsCommit(2) /\ NewActivation(a) \in TasksOf(commit'[2].update)]_vars

\* C22 (amended): the interceptor has one transaction and one nesting level
\* for all threads. An attach commits its changes exactly when no explicit
\* transaction is open on any thread; otherwise its tasks stay in the shared
\* transaction, and the end_transaction that returns the level to zero
\* commits them together with everything else pending.
C22_SharedTransaction ==
  [][/\ \A a \in FuncAddrs :
          AttachInstruments(a)
            => IF current_transaction.level = 0
               THEN /\ StartsCommit(2)
                    /\ NewActivation(a) \in TasksOf(commit'[2].update)
               ELSE /\ commit' = commit
                    /\ code' = code
                    /\ current_transaction'.level = current_transaction.level
                    /\ NewActivation(a)
                         \in TasksOf(current_transaction'.pending_update_tasks)
     /\ EndTransactionOp(1) /\ current_transaction.level = 1
          /\ current_transaction.is_dirty /\ HoldsTasks(current_transaction)
          => /\ StartsCommit(1)
             /\ commit'[1].update = current_transaction.pending_update_tasks
             /\ commit'[1].destroy = current_transaction.pending_destroy_tasks]_vars

C22_Witness ==
  /\ commit[1].op = "end_transaction"
  /\ commit[1].pc = "drain"
  /\ \E id \in CtxIds :
       /\ [ctx |-> id, func |-> "activate"] \in TasksOf(commit[1].update)
       /\ ctx[id].activated
       /\ function_by_address[AddrF] = id

\* ------------------------------------------------------------------------
\* Properties of the destroy drain
\* ------------------------------------------------------------------------
\* This step of thread t's commit examines the head of its destroy queue
\* (reads the usage counter of the task's context).
ExaminesTask(t) ==
  /\ commit[t].pc = "drain"
  /\ commit[t].destroy # <<>>
  /\ commit'[t].destroy = Tail(commit[t].destroy)

\* This step of thread t's commit runs the callback of a destroy task.
RunsCallback(t) == commit[t].pc = "notify" /\ commit'[t].pc = "relock"

\* C23: no destroy task of a context has its usage counter read or its
\* callback run after the context has been finalized.
C23_FinalizerIsLast ==
  [][\A t \in Threads :
       /\ ExaminesTask(t) => ctx[Head(commit[t].destroy).ctx].state # "freed"
       /\ RunsCallback(t) => ctx[commit[t].task[1].ctx].state # "freed"]_vars

\* The destroy tasks queued anywhere: in the commits' local queues and in the
\* current transaction.
QueuedTasks ==
  UNION {{commit[t].destroy[n] : n \in DOMAIN commit[t].destroy} : t \in Threads}
    \cup {current_transaction.pending_destroy_tasks[n] :
            n \in DOMAIN current_transaction.pending_destroy_tasks}

\* The examined task is handed to its callback: the lock is released, the
\* current transaction is left alone.
TaskIsRun(t, task) ==
  /\ commit'[t].pc = "notify"
  /\ commit'[t].task = <<task>>
  /\ mutex'.owner = NULL
  /\ current_transaction' = current_transaction

\* The examined task goes to the tail of the current transaction, which is
\* marked dirty.
TaskIsRescheduled(t, task) ==
  /\ commit'[t].pc = "drain"
  /\ commit'[t].task = <<>>
  /\ current_transaction'.is_dirty
  /\ current_transaction'.pending_destroy_tasks =
       Append(current_transaction.pending_destroy_tasks, task)

\* What the drain does to the tasks of contexts in the given states.
DrainFollowsCounter(states) ==
  \A t \in Threads :
     /\ ExaminesTask(t) /\ ctx[Head(commit[t].destroy).ctx].state \in states
          => LET task == Head(commit[t].destroy)
             IN IF ctx[task.ctx].trampoline_usage_counter = 0
                THEN TaskIsRun(t, task)
                ELSE TaskIsRescheduled(t, task)
     /\ RunsCallback(t) => commit[t].task[1] \notin QueuedTasks'

\* C24: in the destroy drain a task whose context's usage counter is
\* non-zero is neither run nor dropped but appended to the destroy queue of
\* the current transaction, which is marked dirty; a task whose counter is
\* zero is run, once, and is in no queue afterwards.
C24_DrainFollowsCounter ==
  [][DrainFollowsCounter({"unused", "live", "freed"})]_vars

\* The same for the tasks of contexts whose memory has not been released.
DrainOfLiveContexts ==
  [][DrainFollowsCounter({"unused", "live"})]_vars

\* ------------------------------------------------------------------------
\* The lock around the callbacks of destroy tasks
\* ------------------------------------------------------------------------
\* Thread 1 attaches, detaches and uses explicit transactions; the callbacks
\* of its destroy tasks begin a transaction and attach a second listener;
\* thread 2 calls F.
NextCallback ==
  \/ ListenerStep(1, {AddrF}, {1})
  \/ CommitStep(1)
  \/ CallbackBeginsTransaction(1)
  \/ \E d \in FunctionData : CallbackAttaches(1, AddrG, 2, d)
  \/ CallStep(2, {AddrF})

SpecCallback == Init /\ [][NextCallback]_vars

\* The commit of thread t is past its start and not inside a callback.
CommitHoldsLock(t) == commit[t].pc \notin {"idle", "notify", "relock"}

\* C25: while the callback of a destroy task runs, the committing thread
\* does not hold the interceptor's lock; outside the callback the commit holds
\* it exactly once; what is scheduled while the callback runs goes into the
\* current transaction, never into the batch being drained.
C25_CallbacksRunUnlocked ==
  [][\A t \in Threads :
       /\ commit[t].pc = "notify" => mutex.owner # t
       /\ CommitHoldsLock(t) => mutex = [owner |-> t, count |-> 1]
       /\ commit[t].pc = "notify" /\ commit'[t].pc = "notify"
            => /\ commit'[t] = commit[t]
               /\ \A d \in FunctionData :
                    CallbackAttaches(t, AddrG, 2, d) /\ last'.result = "ok"
                      /\ function_by_address[AddrG] = NULL
                    => [ctx |-> function_by_address'[AddrG], func |-> "activate"]
                         \in TasksOf(current_transaction'.pending_update_tasks)]_vars

C25_Witness ==
  /\ commit[1].pc = "notify"
  /\ mutex.owner = NULL
  /\ current_transaction.level > 0
  /\ function_by_address[AddrG] # NULL
  /\ [ctx |-> function_by_address[AddrG], func |-> "activate"]
       \in TasksOf(current_transaction.pending_update_tasks)

\* ------------------------------------------------------------------------
\* Properties of page-indexed update scheduling
\* ------------------------------------------------------------------------
\* Every task of the batch is filed under the start page of its context's
\* prologue, and the end page of that prologue is a page of the batch.
FiledUnderStartPage(update) ==
  \A p \in DOMAIN update : \A n \in DOMAIN update[p] :
     LET a == ctx[update[p][n].ctx].function_address
     IN p = StartPage(a) /\ EndPage(a) \in DOMAIN update

\* The places of the tasks of a commit: page number in the sorted list and
\* index in that page's list.
Positions(cm) ==
  UNION {{<<k, n>> : n \in DOMAIN cm.update[cm.addresses[k]]} :
           k \in 1..Len(cm.addresses)}

Before(x, y) == x[1] < y[1] \/ (x[1] = y[1] /\ x[2] < y[2])

\* The update loop visits the places in order, each once: it starts at the
\* first, goes from each to the next, and ends after the last.
VisitsEachOnce(t) ==
  LET cm == commit[t]
      here == <<cm.i, cm.j>>
      next == <<commit'[t].i, commit'[t].j>>
      later == {y \in Positions(cm) : Before(here, y)}
  IN /\ commit'[t].pc = "update" /\ cm.pc # "update"
          => /\ next \in Positions(commit'[t])
             /\ \A y \in Positions(commit'[t]) : ~ Before(y, next)
     /\ cm.pc = "update" /\ commit'[t] # cm
          => /\ here \in Positions(cm)
             /\ IF later = {} THEN commit'[t].pc # "update"
                ELSE /\ commit'[t].pc = "update"
                     /\ next \in later
                     /\ \A y \in later : ~ Before(y, next)

Sign(n) == IF n < 0 THEN -1 ELSE IF n = 0 THEN 0 ELSE 1

\* C27: for every two pages that a commit sorts, gum_page_address_compare is
\* negative when the first is below the second, zero when they are the same
\* page and positive when the first is above the second.
C27_ComparisonHasTheSignOfTheOrder ==
  \A t \in Threads :
     commit[t].pc # "idle"
       => \A a, b \in Range(commit[t].addresses) :
             Sign(gum_page_address_compare(a, b)) = Sign(a - b)

\* ------------------------------------------------------------------------
\* Properties of the page-rewrite window
\* ------------------------------------------------------------------------
\* C28: on a host without RWX pages and without code segments, whenever a
\* target page of a commit is not executable, every thread other than the
\* committing one is suspended.
C28_OthersSuspendedWhilePagesAreRW ==
  \A t \in Threads :
     /\ host = "suspend"
     /\ commit[t].pc # "idle"
     /\ \E p \in Range(commit[t].addresses) : prot[p] = "rw"
     => suspended = Threads \ {t}

\* ------------------------------------------------------------------------
\* Properties of the commit through a code segment
\* ------------------------------------------------------------------------
\* What the commit of thread t does to the live pages on a host that stages:
\* the copy and the updates leave them alone, and a page is mapped only once
\* every update task has run.
LivePagesOnlyMapped(t) ==
  /\ CommitStage(t) \/ CommitUpdate(t) => code' = code
  /\ CommitStage(t) => commit'[t].staged = code
  /\ code' # code /\ commit[t].pc # "idle"
       => /\ commit[t].pc = "map"
          /\ commit[t].i > Len(commit[t].addresses)
          /\ \E p \in Range(commit[t].addresses) :
               \A a \in FuncAddrs : \A q \in PagesOf(a) :
                  code'[a][q] = IF q = p THEN commit[t].staged[a][q] ELSE code[a][q]

\* C29: with code segments the live target pages are never written directly:
\* the pages are copied, every update task writes into the copies, and only
\* then is each copy mapped over its page; the whole prologue of every task,
\* also one that straddles two pages, lands in the copies of its own pages.
C29_UpdatesLandInStagedCopies ==
  [][\A t \in Threads :
       host = "segment"
         => LivePagesOnlyMapped(t) /\ ~ commit'[t].stray]_vars

\* The same without the last part.
StagedCommitLeavesLivePages ==
  [][\A t \in Threads : host = "segment" => LivePagesOnlyMapped(t)]_vars

\* ------------------------------------------------------------------------
\* Properties of the bypass for a replacement's call of its own function
\* ------------------------------------------------------------------------
\* Thread t is about to run the entry handler of a function while the top of
\* its invocation stack is a replacement call of that same function.
EntersFromOwnReplacement(t) ==
  /\ call[t] # <<>>
  /\ Top(t).pc = "on_enter_trampoline"
  /\ thread_ctx[t].stack # <<>>
  /\ thread_ctx[t].stack[Len(thread_ctx[t].stack)].calling_replacement
  /\ thread_ctx[t].stack[Len(thread_ctx[t].stack)].function
       = ctx[Top(t).c].function_address

\* The entry handler of thread t has run in this step.
EntryHandlerRan(t) ==
  /\ ~ aborted'
  /\ Len(call'[t]) = Len(call[t])
  /\ call'[t][Len(call[t])].pc # "on_enter_trampoline"

NextGuard ==
  \/ \E a \in FuncAddrs, d \in FunctionData : Attach(1, a, 1, d)
  \/ Detach(1, 1)
  \/ CommitStep(1)
  \/ CallStep(2, {AddrF})
  \/ EnterCallbacks(2)
  \/ EnterCallbacksReturn(2)
  \/ LeaveCallbacks(2)
  \/ LeaveCallbacksReturn(2)
  \/ \E a \in FuncAddrs : CallbackCallsFunction(2, a)

SpecGuard == Init /\ [][NextGuard]_vars

\* Thread t is inside a listener callback.
InsideCallback(t) ==
  \E i \in DOMAIN call[t] : call[t][i].pc \in {"on_enter", "on_leave"}

\* C31: while a thread is inside a listener's on_enter or on_leave (the guard
\* is set), the entry handler of every intercepted function it calls goes
\* straight to the on-invoke trampoline: no callback, no replacement, no
\* entry pushed, guard and usage counter as before; the guard is set exactly
\* while the thread is inside a callback.
C31_GuardedCallsBypass ==
  [][\A t \in Threads :
       /\ guard'[t] <=> InsideCallback(t)'
       /\ InsideCallback(t) /\ call[t] # <<>>
            /\ Top(t).pc = "on_enter_trampoline" /\ EntryHandlerRan(t)
            => LET fr == call'[t][Len(call[t])]
                   id == Top(t).c
               IN /\ fr.pc = "on_invoke_trampoline"
                  /\ fr.enter = <<>>
                  /\ ~ fr.dispatch
                  /\ ~ fr.trap
                  /\ thread_ctx'[t].stack = thread_ctx[t].stack
                  /\ guard'[t] = guard[t]
                  /\ ctx'[id].trampoline_usage_counter
                       = ctx[id].trampoline_usage_counter]_vars

C31_Witness ==
  /\ Len(call[2]) = 2
  /\ call[2][1].pc = "on_leave"
  /\ call[2][2].pc = "function"
  /\ call[2][2].c # NULL
  /\ call[2][2].allowed
  /\ guard[2]
  /\ Len(thread_ctx[2].stack) = 1

\* ------------------------------------------------------------------------
\* Balance of the invocation stack and the usage counter
\* ------------------------------------------------------------------------
\* Thread 1 replaces, reverts, attaches and detaches on F; thread 2 calls F,
\* also from the replacement and from the listener's callbacks, and changes
\* its ignore level.
NextBalance ==
  \/ \E fn \in {1}, d \in ReplacementData : Replace(1, AddrF, fn, d)
  \/ Revert(1, AddrF)
  \/ \E d \in FunctionData : Attach(1, AddrF, 1, d)
  \/ Detach(1, 1)
  \/ CommitStep(1)
  \/ CallStep(2, {AddrF})
  \/ ThroughCallStep(2)
  \/ IgnoreCurrentThread(2)
  \/ UnignoreCurrentThread(2)
  \/ EnterCallbacks(2)
  \/ EnterCallbacksReturn(2)
  \/ LeaveCallbacks(2)
  \/ LeaveCallbacksReturn(2)
  \/ CallbackCallsFunction(2, AddrF)

SpecBalance == Init /\ [][NextBalance]_vars

\* The entry handler of the frame has returned with the return address
\* pointing at the on-leave trampoline, and the leave handler has not
\* finished.
Trapped(fr) ==
  /\ fr.trap
  /\ fr.pc \in {"on_invoke_trampoline", "replacement", "function",
               "on_leave_trampoline", "on_leave"}

\* The frames of thread t that satisfy P(frame).
FramesWhere(t, P(_)) == {i \in DOMAIN call[t] : P(call[t][i])}

InsideOnEnter(fr) == fr.pc = "on_enter"
Outstanding(fr) == Trapped(fr) \/ InsideOnEnter(fr)

\* Thread t is the only caller: its stack holds one entry per trapped call
\* (and one for the call whose on_enter is running), and each context's
\* usage counter counts the same calls of that context.
Balanced(t) ==
  /\ Len(thread_ctx[t].stack) = Cardinality(FramesWhere(t, Outstanding))
  /\ \A id \in CtxIds :
       ctx[id].state = "live" =>
         ctx[id].trampoline_usage_counter
           = Cardinality({i \in FramesWhere(t, Outstanding) : call[t][i].c = id})

\* C32: when the entry handler returns, the stack depth and the usage counter
\* exceed their values at handler entry by 1 if the call traps on leave and
\* by 0 otherwise; after the matching leave handler both are back at their
\* values before the entry.
C32_EntryAndLeaveBalance ==
  [][/\ Balanced(2)'
     /\ call[2] # <<>> /\ Top(2).pc = "on_enter_trampoline" /\ EntryHandlerRan(2)
          /\ call'[2][Len(call[2])].pc # "on_enter"
          => LET fr == call'[2][Len(call[2])]
                 id == Top(2).c
                 by == IF fr.trap THEN 1 ELSE 0
             IN /\ Len(thread_ctx'[2].stack) = Len(thread_ctx[2].stack) + by
                /\ ctx'[id].trampoline_usage_counter
                     = ctx[id].trampoline_usage_counter + by]_vars

C32_Witness ==
  /\ Len(call[2]) = 1
  /\ call[2][1].pc = "leaving"
  /\ call[2][1].trap
  /\ call[2][1].leave # <<>>
  /\ ctx[call[2][1].c].state = "live"
  /\ ctx[call[2][1].c].replacement_function # NULL
  /\ ctx[call[2][1].c].trampoline_usage_counter = 0
  /\ thread_ctx[2].stack = <<>>
  /\ ~ aborted

\* ------------------------------------------------------------------------
\* Return addresses
\* ------------------------------------------------------------------------
\* Thread 1 replaces, reverts, attaches and detaches on F; thread 2 calls F,
\* which calls itself, also through its replacement.
NextNesting ==
  \/ \E fn \in {1}, d \in ReplacementData : Replace(1, AddrF, fn, d)
  \/ Revert(1, AddrF)
  \/ \E d \in FunctionData : Attach(1, AddrF, 1, d)
  \/ Detach(1, 1)
  \/ CommitStep(1)
  \/ CallStep(2, {AddrF})
  \/ ThroughCallStep(2)
  \/ FunctionCallsFunction(2, AddrF)

SpecNesting == Init /\ [][NextNesting]_vars

\* The entry handler of thread t's top frame is about to take a bypass.
TakesBypass(t) ==
  \/ guard[t]
  \/ /\ thread_ctx[t].stack # <<>>
     /\ gum_invocation_stack_peek_top(thread_ctx[t].stack).calling_replacement
     /\ gum_invocation_stack_peek_top(thread_ctx[t].stack).function
          = ctx[Top(t).c].function_address

\* will_trap_on_leave as the entry handler of thread t's top frame computes it.
WillTrapOnLeave(t) ==
  LET c == ctx[Top(t).c]
      invoke_listeners == /\ selected_thread_id \in {0, t}
                          /\ thread_ctx[t].ignore_level <= 0
  IN \/ c.replacement_function # NULL
     \/ invoke_listeners /\ c.has_on_leave_listener

\* C33: the entry handler redirects the caller's return address to the
\* on-leave trampoline exactly when will_trap_on_leave = replacement # NULL
\* or (invoke_listeners and has_on_leave_listener); under any nesting each
\* leave handler finds on top the entry its own entry handler pushed, sets the
\* next hop to the return address saved there and pops it, and the caller
\* resumes at its original return address.
C33_CallersResumeWhereTheyCalled ==
  [][\A t \in Threads : call[t] # <<>> =>
       LET n == Len(call[t])
           fr == call'[t][n]
       IN /\ Top(t).pc = "on_enter_trampoline" /\ EntryHandlerRan(t)
               => (fr.trap <=> ~ TakesBypass(t) /\ WillTrapOnLeave(t))
          /\ Top(t).pc = "on_leave_trampoline" /\ ~ aborted' /\ Len(call'[t]) = n
               /\ fr.pc \in {"on_leave", "leaving"}
               => LET stack_entry == gum_invocation_stack_peek_top(thread_ctx[t].stack)
                  IN /\ stack_entry.function_ctx = Top(t).c
                     /\ stack_entry.caller_ret_addr = CallerReturnAddress(t)
                     /\ fr.next_hop = CallerReturnAddress(t)
                     /\ fr.pc = "leaving"
                          => thread_ctx'[t].stack
                               = SubSeq(thread_ctx[t].stack, 1,
                                        Len(thread_ctx[t].stack) - 1)
          /\ Top(t).pc = "on_leave" /\ ~ aborted' /\ Len(call'[t]) = n
               /\ fr.pc = "leaving"
               => /\ fr.next_hop = CallerReturnAddress(t)
                  /\ gum_invocation_stack_peek_top(thread_ctx[t].stack).function_ctx
                       = Top(t).c
                  /\ thread_ctx'[t].stack
                       = SubSeq(thread_ctx[t].stack, 1, Len(thread_ctx[t].stack) - 1)
          /\ Top(t).pc = "leaving" => ~ aborted' \/ ctx[Top(t).c].state = "freed"
                                     \/ aborted]_vars

C33_Witness ==
  /\ Len(call[2]) = 2
  /\ call[2][2].pc = "leaving"
  /\ call[2][2].next_hop = 101
  /\ call[2][2].f = call[2][1].f
  /\ call[2][1].trap
  /\ call[2][1].pc = "function"
  /\ Len(thread_ctx[2].stack) = 1
  /\ thread_ctx[2].stack[1].caller_ret_addr = 100

\* ------------------------------------------------------------------------
\* Published listener arrays
\* ------------------------------------------------------------------------
\* Thread 1 attaches and detaches two listeners on F while thread 2 calls F
\* and stays inside the listeners' callbacks.
NextLists ==
  \/ \E l \in Listeners, d \in FunctionData : Attach(1, AddrF, l, d)
  \/ \E l \in Listeners : Detach(1, l)
  \/ CommitStep(1)
  \/ CallStep(2, {AddrF})
  \/ EnterCallbacks(2)
  \/ EnterCallbacksReturn(2)
  \/ LeaveCallbacks(2)
  \/ LeaveCallbacksReturn(2)

SpecLists == Init /\ [][NextLists]_vars

\* The frames of thread t whose handler loaded a listener array and has not
\* finished iterating it.
Readers(t) ==
  {i \in DOMAIN call[t] : call[t][i].pc \in {"on_enter", "on_leave"}}

\* C34: a published listener array is never modified: a thread that loaded
\* the array pointer in the entry or leave handler finds, for as long as it
\* iterates, the entries it found when it loaded it, none of them released
\* (the array a context points to is the one the thread loaded only while its
\* contents are what the thread loaded).
C34_PublishedListIsStable ==
  \A t \in Threads : \A i \in Readers(t) :
    LET fr == call[t][i]
    IN ctx[fr.c].state = "live" /\ ctx[fr.c].list_id = fr.list_id
         => ctx[fr.c].listener_entries = fr.listener_entries

\* What holds of attach: the array a thread is iterating stays as it was
\* while attach installs another one.
AttachLeavesReadersAlone ==
  [][\A t \in Threads : \A i \in Readers(t) :
       LET fr == call[t][i]
       IN ctx[fr.c].state = "live" /\ ctx'[fr.c].state = "live"
            /\ Len(LiveEntries(ctx'[fr.c].listener_entries))
                 > Len(LiveEntries(ctx[fr.c].listener_entries))
            => ctx'[fr.c].list_id # fr.list_id]_vars

\* ------------------------------------------------------------------------
\* Per-invocation listener data
\* ------------------------------------------------------------------------
\* Listener 1 (on_enter and on_leave) is attached to F and stays; thread 1
\* attaches and detaches listener 2 on F while thread 2 calls F.
NextScratch ==
  \/ \E l \in Listeners, d \in FunctionData : Attach(1, AddrF, l, d)
  \/ Detach(1, 2)
  \/ CommitStep(1)
  \/ CallStep(2, {AddrF})

SpecScratch == Init /\ [][NextScratch]_vars

\* C35: a listener that gets on_enter and on_leave for one invocation gets
\* the same row of listener_invocation_data in both, whatever other listeners
\* are attached and detached in between, and the row's index is below the
\* maximum number of listeners per function (slots count from 1 here, so the
\* greatest row is slot GUM_MAX_LISTENERS_PER_FUNCTION).
C35_SameScratchOnLeave ==
  [][\A t \in Threads :
       /\ \A i \in DOMAIN call'[t] : \A j \in DOMAIN call'[t][i].enter_slots :
            call'[t][i].enter_slots[j] <= GUM_MAX_LISTENERS_PER_FUNCTION
       /\ call[t] # <<>> /\ Top(t).pc = "on_leave_trampoline" /\ ~ aborted'
            /\ Len(call'[t]) = Len(call[t])
            /\ call'[t][Len(call[t])].pc \in {"on_leave", "leaving"}
            => LET fr == Top(t)
                   entries == ctx[fr.c].listener_entries
               IN \A i \in 1..Len(entries) :
                    entries[i] # NullEntry /\ HasOnLeave(entries[i].listener_instance)
                    => /\ i <= GUM_MAX_LISTENERS_PER_FUNCTION
                       /\ \A j \in DOMAIN fr.enter :
                            fr.enter[j] = entries[i].listener_instance
                            => fr.enter_slots[j] = i]_vars

\* ------------------------------------------------------------------------
\* Activation and deactivation tasks
\* ------------------------------------------------------------------------
\* Thread t's commit is about to run an update task / the task / this step
\* runs it.
AtUpdateTask(t) == commit[t].pc = "update"
UpdateTask(t) == commit[t].update[commit[t].addresses[commit[t].i]][commit[t].j]
RunsUpdateTask(t) ==
  /\ AtUpdateTask(t)
  /\ <<commit'[t].pc, commit'[t].i, commit'[t].j>>
       # <<commit[t].pc, commit[t].i, commit[t].j>>

\* C36: an activation task never runs on a context that is destroyed or
\* already activated, and a deactivation task only on an activated context.
C36_ActivationNeverOnDestroyed ==
  \A t \in Threads : AtUpdateTask(t) =>
    LET c == ctx[UpdateTask(t).ctx]
    IN IF UpdateTask(t).func = "activate"
       THEN ~ c.destroyed /\ ~ c.activated
       ELSE c.activated

\* C36 as amended: an activation task may find its context destroyed, and
\* then changes nothing; otherwise the context is not activated when the task
\* runs; a deactivation task only runs on an activated context.
C36_ActivationSkipsDestroyed ==
  [][\A t \in Threads : RunsUpdateTask(t) =>
       LET id == UpdateTask(t).ctx
           c == ctx[id]
       IN IF UpdateTask(t).func = "activate"
          THEN IF c.destroyed
               THEN /\ ctx'[id] = c
                    /\ code' = code
                    /\ commit'[t].staged = commit[t].staged
                    /\ aborted' = aborted
               ELSE ~ c.activated /\ ctx'[id].activated
          ELSE c.activated /\ ~ ctx'[id].activated]_vars

C36_Witness ==
  /\ commit[1].pc = "update"
  /\ commit[1].op = "end_transaction"
  /\ UpdateTask(1).func = "activate"
  /\ ctx[UpdateTask(1).ctx].destroyed
  /\ ~ ctx[UpdateTask(1).ctx].activated
  /\ function_by_address[AddrF] = NULL

\* ------------------------------------------------------------------------
\* Destroyed and activated contexts
\* ------------------------------------------------------------------------
\* The update tasks that thread t's commit has still to run.
RemainingUpdates(t) ==
  IF commit[t].pc \in {"suspend", "protect", "stage"}
  THEN TasksOf(commit[t].update)
  ELSE IF commit[t].pc = "update"
  THEN UNION {{commit[t].update[commit[t].addresses[k]][n] :
                 n \in {m \in DOMAIN commit[t].update[commit[t].addresses[k]] :
                          k > commit[t].i \/ m >= commit[t].j}} :
              k \in commit[t].i..Len(commit[t].addresses)}
  ELSE {}

\* A deactivation of context id is scheduled and has not run.
DeactivationPending(id) ==
  LET task == [ctx |-> id, func |-> "deactivate"]
  IN \/ task \in TasksOf(current_transaction.pending_update_tasks)
     \/ \E t \in Threads : task \in RemainingUpdates(t)

NoneLeftAfterUpdatePhase ==
  commit[1].pc \notin {"idle", "suspend", "protect", "stage", "update"} /\ ~ aborted
    => \A id \in CtxIds :
         ctx[id].state = "live" => ~ (ctx[id].destroyed /\ ctx[id].activated)

Mapped == {function_by_address[a] : a \in DOMAIN function_by_address} \ {NULL}

\* How many finalizing destroy tasks of context id are in a queue.
FinalizersIn(queue, id) ==
  Cardinality({i \in DOMAIN queue :
                 queue[i].ctx = id /\ queue[i].notify = "perform_destroy"})

\* The finalizing destroy tasks of context id that are scheduled and have not
\* run: in the current transaction, in a commit's queue, or the one whose
\* callback a commit is about to call.
Finalizers(id) ==
  FinalizersIn(current_transaction.pending_destroy_tasks, id)
    + FinalizersIn(commit[1].destroy, id) + FinalizersIn(commit[1].task, id)
    + FinalizersIn(commit[2].destroy, id) + FinalizersIn(commit[2].task, id)

\* C38: whenever the interceptor's lock is free, every context in the address
\* map is non-empty and not destroyed, no two addresses share a context and
\* each context sits under its own address, and every context removed from
\* the map is marked destroyed with exactly one finalizing destroy task
\* scheduled for it (until that task has released it).
C38_MapHoldsLiveNonEmptyContexts ==
  mutex.count = 0 /\ ~ aborted =>
    /\ \A a \in DOMAIN function_by_address :
         function_by_address[a] # NULL =>
           LET c == ctx[function_by_address[a]]
           IN /\ c.state = "live"
              /\ ~ gum_function_context_is_empty(c)
              /\ ~ c.destroyed
              /\ c.function_address = a
              /\ \A b \in DOMAIN function_by_address :
                   function_by_address[b] = function_by_address[a] => b = a
    /\ \A id \in CtxIds :
         ctx[id].state = "live" /\ id \notin Mapped
           => ctx[id].destroyed /\ Finalizers(id) = 1

C38_Witness ==
  /\ mutex.count = 0
  /\ ~ aborted
  /\ function_by_address[AddrF] # NULL
  /\ \E id \in CtxIds :
       /\ ctx[id].state = "live"
       /\ id \notin Mapped
       /\ ctx[id].function_address = AddrF
       /\ Finalizers(id) = 1

\* ------------------------------------------------------------------------
\* Save and restore of the invocation stack
\* ------------------------------------------------------------------------
\* Thread 1 attaches a listener to F; thread 2 calls F, which
\* calls itself, saves the invocation state and jumps back to where it saved
\* it, also out of the listener's on_enter.
NextRestore ==
  \/ \E d \in FunctionData : Attach(1, AddrF, 1, d)
  \/ CommitStep(1)
  \/ CallStep(2, {AddrF})
  \/ FunctionCallsFunction(2, AddrF)
  \/ EnterCallbacks(2)
  \/ EnterCallbacksReturn(2)
  \/ Save(2)
  \/ \E i \in 1..MaxNesting : Restore(2, i)

SpecRestore == Init /\ [][NextRestore]_vars

\* This step is a restore of thread t that lands in its frame i.
Restores(t, i) ==
  /\ i \in DOMAIN call[t]
  /\ i \in DOMAIN call'[t]
  /\ call'[t][i].jumps = call[t][i].jumps + 1

\* C39: restore truncates the thread's invocation stack to the saved depth
\* and decrements the usage counter of the context of each discarded entry
\* once per discarded entry; with the depth unchanged since the save it
\* changes nothing; no usage counter becomes negative.
C39_RestoreTruncatesAndReleases ==
  [][\A t \in Threads : \A i \in 1..MaxNesting : Restores(t, i) =>
       LET old_depth == call[t][i].state
           stack == thread_ctx[t].stack
       IN /\ ~ aborted'
          /\ thread_ctx'[t].stack = SubSeq(stack, 1, old_depth)
          /\ Len(thread_ctx'[t].stack) = old_depth
          /\ \A id \in CtxIds :
               /\ ctx'[id].trampoline_usage_counter
                    = ctx[id].trampoline_usage_counter
                      - Cardinality({k \in (old_depth + 1)..Len(stack) :
                                       stack[k].function_ctx = id})
               /\ ctx'[id].trampoline_usage_counter >= 0
          /\ Len(stack) = old_depth => thread_ctx' = thread_ctx /\ ctx' = ctx]_vars

C39_Witness ==
  /\ Len(call[2]) = 1
  /\ call[2][1].jumps = 1
  /\ call[2][1].discarded = 2
  /\ call[2][1].state = 1
  /\ Len(thread_ctx[2].stack) = 1
  /\ ~ aborted

\* ------------------------------------------------------------------------
\* One activated context per address
\* ------------------------------------------------------------------------
\* The contexts of address a that are activated.
ActivatedAt(a) ==
  {id \in CtxIds : /\ ctx[id].state = "live"
                   /\ ctx[id].function_address = a
                   /\ ctx[id].activated}

\* C40: for every function address at most one context, in the map or
\* destroyed and awaiting its deactivation, is activated.
C40_OneActivatedContextPerAddress ==
  \A i \in DOMAIN Addresses : Cardinality(ActivatedAt(Addresses[i])) <= 1

\* F was emptied and instrumented again inside one transaction, and the
\* commit has run the deactivation of the old context and the activation of
\* the new one.
C40_Witness ==
  /\ \E old \in CtxIds :
       /\ ctx[old].state = "live"
       /\ ctx[old].function_address = AddrF
       /\ ctx[old].destroyed
       /\ ~ ctx[old].activated
       /\ function_by_address[AddrF] \notin {NULL, old}
       /\ ctx[function_by_address[AddrF]].activated
       /\ [ctx |-> old, func |-> "deactivate"] \in TasksOf(commit[1].update)
       /\ [ctx |-> function_by_address[AddrF], func |-> "activate"]
            \in TasksOf(commit[1].update)
  /\ ~ aborted

====
